---- MODULE Spec2Model ----
(* Verification model of route-sherlock's analysis engine.                   *)
(*                                                                           *)
(* Peer-risk scoring (cli/commands.py, run_peer_risk) is modelled as a       *)
(* state machine whose steps are the provider calls the coroutine awaits.    *)
(* Each action is one await together with everything the coroutine does      *)
(* until the next await, its exception handlers included.  The variable      *)
(* `run` is the assessment of (target_asn, my_asn, days); `ref` is the       *)
(* assessment of the same target without --my-asn, fed the very same         *)
(* provider answers, so that statements comparing the two are state          *)
(* predicates.                                                               *)
(*                                                                           *)
(* The other analyzers have a variable and a specification each: `lvl`       *)
(* (the risk level of a total, LevelSpec), `prof` (ASNAnalyzer.get_profile,  *)
(* ProfileSpec), `full` (RouteSherlock.full_analysis, FullSpec), `cand` and  *)
(* `ixr` (PeeringAnalyzer.find_peering_candidates and recommend_ixes,        *)
(* PeeringSpec), `pa` (PathAnalyzer.analyze_paths and detect_anomalies,      *)
(* PathSpec), `replay` (BGPStreamClient.investigate_incident and             *)
(* detect_anomalies, ReplaySpec), `req` (the provider clients' _request,     *)
(* RequestSpec), `mc` (cache.store.MemoryCache, CacheSpec).  A variable is   *)
(* Idle in the specifications of the others.                                 *)
EXTENDS Integers, Sequences, FiniteSets, TLC

VARIABLES run, ref, lvl, prof, full, cand, ixr, pa, replay, req, mc

vars == <<run, ref, lvl, prof, full, cand, ixr, pa, replay, req, mc>>

-----------------------------------------------------------------------------
(* Bounds of the model.                                                      *)

MaxIx == 10
MaxUpstreams == 3
MaxDays == 2

-----------------------------------------------------------------------------
(* Python helpers.                                                           *)

Min(a, b) == IF a < b THEN a ELSE b
Max(a, b) == IF a > b THEN a ELSE b

EmptyDict == [k \in {} |-> 0]

\* dict.get(k, default)
Get(d, k, default) == IF k \in DOMAIN d THEN d[k] ELSE default

\* d[k] = v
Put(d, k, v) == [x \in (DOMAIN d) \cup {k} |-> IF x = k THEN v ELSE d[x]]

\* set(c.ix_id for c in ixlans)
IxIds(ixlans) == {ixlans[i] : i \in 1..Len(ixlans)}

\* str.lower() on the policy and traffic-ratio strings PeeringDB serves
Lower(s) ==
  CASE s = "Open" -> "open"
    [] s = "Selective" -> "selective"
    [] s = "Restrictive" -> "restrictive"
    [] s = "No" -> "no"
    [] s = "Unknown" -> "unknown"
    [] s = "Balanced" -> "balanced"
    [] s = "Mostly Inbound" -> "mostly inbound"
    [] s = "Mostly Outbound" -> "mostly outbound"
    [] OTHER -> s

\* sum(s["score"] for s in risk_data["scores"].values())
RECURSIVE SumScores(_, _)
SumScores(scores, keys) ==
  IF keys = {} THEN 0
  ELSE LET k == CHOOSE x \in keys : TRUE
       IN scores[k].score + SumScores(scores, keys \ {k})

RECURSIVE SumMax(_, _)
SumMax(scores, keys) ==
  IF keys = {} THEN 0
  ELSE LET k == CHOOSE x \in keys : TRUE
       IN scores[k].max + SumMax(scores, keys \ {k})

-----------------------------------------------------------------------------
(* Inputs of run_peer_risk and the answers of the providers.                 *)

TargetASN == 64500
MyASN == 64501
\* my_asn_int when --my-asn is not given (None, falsy)
NoASN == 0

\* --days; 0 exercises max(days, 1)
Days == {0, MaxDays}

ErrorKinds == {"NotFound", "Transient"}

Policies == {"Open", "Selective", "Restrictive", "No", ""}

\* Network records: the fields run_peer_risk reads
Network(policy, irr, url) ==
  [name |-> "ExampleNet", policy_general |-> policy, irr_as_set |-> irr, policy_url |-> url]

Networks ==
  {Network("Open", "AS-EXAMPLE", "https://example.net/peering"),
   Network("Open", "", ""),
   Network("Selective", "AS-EXAMPLE", ""),
   Network("Restrictive", "", "https://example.net/peering"),
   Network("No", "AS-EXAMPLE", "https://example.net/peering"),
   Network("", "", "")}

\* the local `network` before it is bound
NoNetwork == [name |-> "", policy_general |-> "", irr_as_set |-> "", policy_url |-> ""]

\* netixlan lists, as the sequence of their ix_id fields
IxList(n) == [i \in 1..n |-> i]
TargetIxLans == {IxList(0), <<1, 1>>, IxList(5), IxList(MaxIx - 1), IxList(MaxIx)}
MyIxLans == {<<1, 1, 77>>}

\* len(updates.updates), chosen around the tier boundaries of updates_per_day
UpdateCounts(days) ==
  {q * Max(days, 1) : q \in {0, 10, 50, 100, 500, 600}}
    \cup {q * Max(days, 1) + 1 : q \in {10, 50, 100}}

\* prefixes.prefix_count
PrefixCounts == {0, 12}

\* overview.holder
Holders == {"", "EXAMPLE-AS"}

\* ASNeighbours, as the lengths of its upstreams and downstreams lists
Neighbours ==
  {[upstreams |-> u, downstreams |-> IF u = MaxUpstreams THEN 101 ELSE 0] :
     u \in 0..MaxUpstreams}

Ok(v) == [kind |-> "ok", value |-> v]
Fail(k, v) == [kind |-> k, value |-> v]

NetworkResponses == {Ok(n) : n \in Networks} \cup {Fail(k, NoNetwork) : k \in ErrorKinds}
IxLanResponses(lists) == {Ok(l) : l \in lists} \cup {Fail(k, <<>>) : k \in ErrorKinds}
UpdateResponses(days) ==
  {Ok(n) : n \in UpdateCounts(days)} \cup {Fail(k, 0) : k \in ErrorKinds}
PrefixResponses(counts) == {Ok(n) : n \in counts} \cup {Fail(k, 0) : k \in ErrorKinds}
OverviewResponses == {Ok(h) : h \in Holders} \cup {Fail(k, "") : k \in ErrorKinds}
NeighbourResponses ==
  {Ok(n) : n \in Neighbours}
    \cup {Fail(k, [upstreams |-> 0, downstreams |-> 0]) : k \in ErrorKinds}

-----------------------------------------------------------------------------
(* run_peer_risk: state after the set-up, before the first await.            *)

StartRun(my_asn, days) ==
  [pc |-> "get_network",
   my_asn_int |-> my_asn,
   days |-> days,
   risk_data |-> [target_asn |-> TargetASN,
                  my_asn |-> my_asn,
                  analysis_period_days |-> days,
                  scores |-> EmptyDict,
                  warnings |-> <<>>],
   maturity_score |-> 0,
   maturity_factors |-> <<>>,
   stability_score |-> 0,
   stability_factors |-> <<>>,
   incident_score |-> 0,
   incident_factors |-> <<>>,
   network |-> NoNetwork,
   ixlans |-> <<>>,
   update_count |-> -1,
   failures |-> {}]

Warn(r, w) ==
  [r EXCEPT !.risk_data = Put(@, "warnings", Append(@.warnings, w))]

SetScore(r, category, score, max, factors) ==
  [r EXCEPT !.risk_data =
     Put(@, "scores",
         Put(@.scores, category, [score |-> score, max |-> max, factors |-> factors]))]

Failed(r, call) == [r EXCEPT !.failures = @ \cup {call}]

-----------------------------------------------------------------------------
(* 1. Network maturity.                                                      *)

\* risk_data["scores"]["maturity"] = ...; stability_score = 30
FinishMaturity(r) ==
  [SetScore(r, "maturity", r.maturity_score, 20, r.maturity_factors)
     EXCEPT !.pc = "get_bgp_updates", !.stability_score = 30, !.stability_factors = <<>>]

\* except PeeringDBNotFoundError
PeeringDBNotFound(r) ==
  LET w == Warn(r, "Not in PeeringDB - cannot verify network details")
  IN FinishMaturity(
       [w EXCEPT !.risk_data =
          Put(@, "network", [name |-> "AS64500", peeringdb |-> FALSE])])

\* a handler that catches PeeringDBNotFoundError only, as get_identity's does
OuterHandlerCatchesNotFoundOnly(kind) == kind = "NotFound"

\* the kinds the outer handler (except Exception) catches
OuterHandlerCatches(kind) == TRUE

\* except Exception as e
PeeringDBFailed(r, kind) ==
  IF OuterHandlerCatches(kind)
  THEN LET w == Warn(r, "PeeringDB lookup failed")
       IN FinishMaturity(
            [w EXCEPT !.risk_data = Put(@, "network", [name |-> "AS64500"])])
  ELSE [r EXCEPT !.pc = "raised"]

PeeringDBRaise(r, call, kind) ==
  IF kind = "NotFound"
  THEN PeeringDBNotFound(Failed(r, call))
  ELSE PeeringDBFailed(Failed(r, call), kind)

\* network = await pdb.get_network_by_asn(target_asn_int) ... policy_url
NetworkFetched(r, network) ==
  LET net0 == [name |-> network.name, policy |-> network.policy_general]
      r1 == [r EXCEPT !.network = network,
                      !.risk_data = Put(@, "network", net0),
                      !.maturity_score = @ + 5,
                      !.maturity_factors = Append(@, "PeeringDB registered (+5)")]
      r2 == IF network.irr_as_set # ""
            THEN [r1 EXCEPT !.maturity_score = @ + 5,
                            !.maturity_factors = Append(@, "IRR as-set (+5)"),
                            !.risk_data = Put(@, "network",
                               Put(@.network, "irr_as_set", network.irr_as_set))]
            ELSE Warn(r1, "No IRR as-set registered")
      r3 == IF network.policy_url # ""
            THEN [r2 EXCEPT !.maturity_score = @ + 3,
                            !.maturity_factors = Append(@, "Published peering policy (+3)"),
                            !.risk_data = Put(@, "network",
                               Put(@.network, "policy_url", network.policy_url))]
            ELSE r2
  IN [r3 EXCEPT !.pc = "get_ixlans"]

OnNetwork(r, resp) ==
  IF resp.kind = "ok"
  THEN NetworkFetched(r, resp.value)
  ELSE PeeringDBRaise(r, "get_network_by_asn", resp.kind)

\* the IX-count tiers with the top tier worth 8
IxPointsTopTierEight(ix_count) ==
  IF ix_count >= 10 THEN 8
  ELSE IF ix_count >= 5 THEN 5
  ELSE IF ix_count >= 1 THEN 2
  ELSE 0

\* the IX-count tiers
IxPoints(ix_count) ==
  IF ix_count >= 10 THEN 7
  ELSE IF ix_count >= 5 THEN 5
  ELSE IF ix_count >= 1 THEN 2
  ELSE 0

IxFactor(ix_count) ==
  IF ix_count >= 10 THEN "Strong IX presence (+7)"
  ELSE IF ix_count >= 5 THEN "Good IX presence (+5)"
  ELSE "Limited IX presence (+2)"

\* ixlans = await pdb.get_network_ixlans(target_asn_int) ... if my_asn_int:
IxLansFetched(r, ixlans) ==
  LET ix_count == Cardinality(IxIds(ixlans))
      r1 == [r EXCEPT !.ixlans = ixlans,
                      !.risk_data = Put(@, "network", Put(@.network, "ix_count", ix_count))]
      r2 == IF ix_count >= 1
            THEN [r1 EXCEPT !.maturity_score = @ + IxPoints(ix_count),
                            !.maturity_factors = Append(@, IxFactor(ix_count))]
            ELSE Warn(r1, "No IX presence - may indicate limited reach")
  IN IF r.my_asn_int # NoASN
     THEN [r2 EXCEPT !.pc = "get_my_ixlans"]
     ELSE FinishMaturity(r2)

OnIxLans(r, resp) ==
  IF resp.kind = "ok"
  THEN IxLansFetched(r, resp.value)
  ELSE PeeringDBRaise(r, "get_network_ixlans", resp.kind)

\* my_ixlans = await pdb.get_network_ixlans(my_asn_int) ... risk_data["ix_overlap"]
MyIxLansFetched(r, my_ixlans) ==
  LET my_ix_ids == IxIds(my_ixlans)
      target_ix_ids == IxIds(r.ixlans)
      common_ix_ids == my_ix_ids \cap target_ix_ids
  IN FinishMaturity(
       [r EXCEPT !.risk_data = Put(@, "ix_overlap",
          [common_count |-> Cardinality(common_ix_ids),
           your_ix_count |-> Cardinality(my_ix_ids),
           target_ix_count |-> Cardinality(target_ix_ids)])])

OnMyIxLans(r, resp) ==
  IF resp.kind = "ok"
  THEN MyIxLansFetched(r, resp.value)
  ELSE PeeringDBRaise(r, "get_network_ixlans(my_asn)", resp.kind)

-----------------------------------------------------------------------------
(* 2. Stability.  updates_per_day = update_count / max(days, 1) is a float   *)
(* in the source; the comparisons and the truncating int() are computed      *)
(* here on the integers update_count and max(days, 1).                       *)

\* updates_per_day > k
RateAbove(update_count, days, k) == update_count > k * Max(days, 1)

\* int(updates_per_day / k)
RateDiv(update_count, days, k) == update_count \div (k * Max(days, 1))

\* the penalty with the tiers applied cumulatively (if / if / if) instead of
\* exclusively (if / elif / elif)
StabilityPenaltyCumulative(update_count, days) ==
  (IF RateAbove(update_count, days, 100)
     THEN Min(25, RateDiv(update_count, days, 20)) ELSE 0)
  + (IF RateAbove(update_count, days, 50)
       THEN Min(15, RateDiv(update_count, days, 10)) ELSE 0)
  + (IF RateAbove(update_count, days, 10)
       THEN Min(5, RateDiv(update_count, days, 5)) ELSE 0)

\* penalty = min(..., int(updates_per_day / ...)) of the tier reached
StabilityPenalty(update_count, days) ==
  IF RateAbove(update_count, days, 100) THEN Min(25, RateDiv(update_count, days, 20))
  ELSE IF RateAbove(update_count, days, 50) THEN Min(15, RateDiv(update_count, days, 10))
  ELSE IF RateAbove(update_count, days, 10) THEN Min(5, RateDiv(update_count, days, 5))
  ELSE 0

StabilityFactor(update_count, days) ==
  IF RateAbove(update_count, days, 100) THEN "High churn"
  ELSE IF RateAbove(update_count, days, 50) THEN "Moderate churn"
  ELSE IF RateAbove(update_count, days, 10) THEN "Some activity"
  ELSE "Stable routing (+0)"

\* stability_score = max(0, stability_score); risk_data["scores"]["stability"] = ...;
\* incident_score = 30
FinishStability(r) ==
  LET score == Max(0, r.stability_score)
  IN [SetScore(r, "stability", score, 30, r.stability_factors)
        EXCEPT !.pc = "get_as_overview", !.stability_score = score,
               !.incident_score = 30, !.incident_factors = <<>>]

\* except Exception as e (stability)
StabilityFailed(r, call) ==
  FinishStability(
    [Failed(r, call) EXCEPT
       !.stability_factors = Append(@, "Could not fetch stability data"),
       !.risk_data = Put(@, "stability", [error |-> TRUE])])

\* updates = await ripestat.get_bgp_updates(...) ... the tier's factor
UpdatesFetched(r, update_count) ==
  LET r1 == [r EXCEPT !.update_count = update_count,
                      !.risk_data = Put(@, "stability",
                         [total_updates |-> update_count,
                          period_days |-> r.days])]
      r2 == [r1 EXCEPT !.stability_score = @ - StabilityPenalty(update_count, r.days),
                       !.stability_factors =
                          Append(@, StabilityFactor(update_count, r.days))]
      r3 == IF RateAbove(update_count, r.days, 100)
            THEN Warn(r2, "High BGP churn detected")
            ELSE r2
  IN [r3 EXCEPT !.pc = "get_announced_prefixes"]

OnBgpUpdates(r, resp) ==
  IF resp.kind = "ok"
  THEN UpdatesFetched(r, resp.value)
  ELSE StabilityFailed(r, "get_bgp_updates")

\* prefixes = await ripestat.get_announced_prefixes(...); prefix_count recorded
OnAnnouncedPrefixes(r, resp) ==
  IF resp.kind = "ok"
  THEN FinishStability(
         [r EXCEPT !.risk_data = Put(@, "stability",
            Put(@.stability, "prefix_count", resp.value))])
  ELSE StabilityFailed(r, "get_announced_prefixes")

-----------------------------------------------------------------------------
(* 3. Incident history.                                                      *)

\* except Exception as e (topology)
TopologyFailed(r, call) ==
  [Failed(r, call) EXCEPT !.incident_factors = Append(@, "Could not verify topology"),
                          !.pc = "rpki_prefixes"]

\* overview = await ripestat.get_as_overview(...); the holder replaces the name
OnOverview(r, resp) ==
  IF resp.kind # "ok" THEN TopologyFailed(r, "get_as_overview")
  ELSE IF resp.value = "" THEN [r EXCEPT !.pc = "get_as_neighbours"]
  ELSE IF "network" \notin DOMAIN r.risk_data THEN TopologyFailed(r, "KeyError")
  ELSE [r EXCEPT !.pc = "get_as_neighbours",
                 !.risk_data = Put(@, "network", Put(@.network, "name", resp.value))]

\* incident_score -= 5 for exactly one upstream
UpstreamPenalty(upstream_count) == IF upstream_count = 1 THEN 5 ELSE 0

\* neighbours = await ripestat.get_as_neighbours(...) ... type_inferred
NeighboursFetched(r, neighbours) ==
  LET upstream_count == neighbours.upstreams
      downstream_count == neighbours.downstreams
      r1 == [r EXCEPT !.risk_data = Put(@, "topology",
                [upstreams |-> upstream_count, downstreams |-> downstream_count])]
      r2 == IF upstream_count = 1
            THEN Warn([r1 EXCEPT
                         !.incident_score = @ - UpstreamPenalty(upstream_count),
                         !.incident_factors =
                            Append(@, "Single upstream - limited redundancy (-5)")],
                      "Single upstream provider - potential single point of failure")
            ELSE IF upstream_count >= 3
            THEN [r1 EXCEPT !.incident_factors =
                    Append(@, "Multiple upstreams - good redundancy (+0)")]
            ELSE r1
      r3 == IF downstream_count > 100
            THEN IF "network" \notin DOMAIN r2.risk_data
                 THEN TopologyFailed(r2, "KeyError")
                 ELSE [r2 EXCEPT
                         !.incident_factors = Append(@, "Major transit provider"),
                         !.risk_data = Put(@, "network",
                            Put(@.network, "type_inferred", "transit"))]
            ELSE r2
  IN [r3 EXCEPT !.pc = "rpki_prefixes"]

OnNeighbours(r, resp) ==
  IF resp.kind = "ok"
  THEN NeighboursFetched(r, resp.value)
  ELSE TopologyFailed(r, "get_as_neighbours")

-----------------------------------------------------------------------------
(* 4. Policy, 5. security, total and risk level: synchronous code that runs  *)
(* after the last await.                                                     *)

\* the policy points with nothing granted to a policy outside the table
PolicyPointsUnlistedZero(policy) ==
  IF policy = "" THEN 0
  ELSE IF Lower(policy) = "open" THEN 10
  ELSE IF Lower(policy) = "selective" THEN 7
  ELSE IF Lower(policy) = "restrictive" THEN 3
  ELSE 0

\* the policy tiers
PolicyPoints(policy) ==
  IF policy = "" THEN 0
  ELSE IF Lower(policy) = "open" THEN 10
  ELSE IF Lower(policy) = "selective" THEN 7
  ELSE IF Lower(policy) = "restrictive" THEN 3
  ELSE 5

PolicyFactor(policy) ==
  IF policy = "" THEN "No policy information available (+0)"
  ELSE IF Lower(policy) = "open" THEN "Open peering policy (+10)"
  ELSE IF Lower(policy) = "selective" THEN "Selective peering policy (+7)"
  ELSE IF Lower(policy) = "restrictive" THEN "Restrictive peering policy (+3)"
  ELSE "Policy (+5)"

\* policy = risk_data.get("network", {}).get("policy", "Unknown")
RecordedPolicy(risk_data) == Get(Get(risk_data, "network", EmptyDict), "policy", "Unknown")

ScorePolicy(r) ==
  LET policy == RecordedPolicy(r.risk_data)
      r1 == SetScore(r, "policy", PolicyPoints(policy), 10, <<PolicyFactor(policy)>>)
  IN IF policy # "" /\ Lower(policy) = "restrictive"
     THEN [r1 EXCEPT !.risk_data = Put(@, "warnings",
             Append(r.risk_data.warnings,
                    "Restrictive peering policy may make establishing session difficult"))]
     ELSE r1

\* security_score = 5, +3 for a recorded IRR as-set, +2 for >= 2 recorded upstreams
SecurityPoints(risk_data) ==
  LET irr == Get(Get(risk_data, "network", EmptyDict), "irr_as_set", "")
      upstreams == Get(Get(risk_data, "topology", EmptyDict), "upstreams", 0)
  IN Min(10, 5 + (IF irr # "" THEN 3 ELSE 0) + (IF upstreams >= 2 THEN 2 ELSE 0))

ScoreSecurity(r) ==
  LET irr == Get(Get(r.risk_data, "network", EmptyDict), "irr_as_set", "")
      upstreams == Get(Get(r.risk_data, "topology", EmptyDict), "upstreams", 0)
      factors == (IF irr # "" THEN <<"IRR registered (+3)">> ELSE <<>>)
                   \o (IF upstreams >= 2 THEN <<"Multiple transit relationships (+2)">>
                       ELSE <<>>)
  IN SetScore(r, "security", SecurityPoints(r.risk_data), 10, factors)

\* the risk level with exclusive lower bounds (> instead of >=)
RiskLevelExclusive(total_score) ==
  IF total_score > 80 THEN "LOW"
  ELSE IF total_score > 60 THEN "MODERATE"
  ELSE IF total_score > 40 THEN "ELEVATED"
  ELSE "HIGH"

\* the risk level of a total score
RiskLevel(total_score) ==
  IF total_score >= 80 THEN "LOW"
  ELSE IF total_score >= 60 THEN "MODERATE"
  ELSE IF total_score >= 40 THEN "ELEVATED"
  ELSE "HIGH"

RecommendationOf(total_score) ==
  IF total_score >= 80 THEN "RECOMMENDED"
  ELSE IF total_score >= 60 THEN "ACCEPTABLE"
  ELSE IF total_score >= 40 THEN "CAUTION"
  ELSE "NOT RECOMMENDED"

\* total_score, max_score, risk_level, recommendation
ScoreTotal(r) ==
  LET scores == r.risk_data.scores
      total_score == SumScores(scores, DOMAIN scores)
      max_score == SumMax(scores, DOMAIN scores)
  IN [r EXCEPT !.pc = "done",
               !.risk_data =
                  Put(Put(Put(Put(@, "total_score", total_score),
                              "max_score", max_score),
                          "risk_level", RiskLevel(total_score)),
                      "recommendation", RecommendationOf(total_score))]

\* incident_score = max(0, incident_score); risk_data["scores"]["incident_history"]
FinishIncident(r) ==
  LET score == Max(0, r.incident_score)
  IN [SetScore(r, "incident_history", score, 30, r.incident_factors)
        EXCEPT !.incident_score = score]

\* prefixes = await ripestat.get_announced_prefixes(...) (RPKI context), then
\* everything up to the end of the scoring
OnRpkiPrefixes(r, resp) ==
  LET r1 == IF resp.kind = "ok"
            THEN LET r0 == [r EXCEPT !.risk_data = Put(@, "rpki",
                               [prefixes_announced |-> resp.value])]
                 IN IF resp.value > 0
                    THEN [r0 EXCEPT !.incident_factors = Append(@, "Announcing prefixes")]
                    ELSE r0
            ELSE Failed(r, "get_announced_prefixes(rpki)")
  IN ScoreTotal(ScoreSecurity(ScorePolicy(FinishIncident(r1))))

-----------------------------------------------------------------------------
(* The peer-risk machine.                                                    *)

\* In every action the provider's answer reaches the reference assessment
\* too when it is at the same call (it never awaits the fetch for my_asn).

Idle == [pc |-> "idle"]

Init ==
  /\ \E my \in {NoASN, MyASN}, d \in Days :
       /\ run = StartRun(my, d)
       /\ ref = StartRun(NoASN, d)
  /\ lvl = Idle
  /\ prof = Idle
  /\ full = Idle
  /\ cand = Idle
  /\ ixr = Idle
  /\ pa = Idle
  /\ replay = Idle
  /\ req = Idle
  /\ mc = Idle

GetNetworkByAsn ==
  /\ run.pc = "get_network"
  /\ \E resp \in NetworkResponses :
       /\ run' = OnNetwork(run, resp)
       /\ ref' = IF ref.pc = run.pc THEN OnNetwork(ref, resp) ELSE ref
  /\ UNCHANGED <<lvl, prof, full, cand, ixr, pa, replay, req, mc>>

GetNetworkIxLans ==
  /\ run.pc = "get_ixlans"
  /\ \E resp \in IxLanResponses(TargetIxLans) :
       /\ run' = OnIxLans(run, resp)
       /\ ref' = IF ref.pc = run.pc THEN OnIxLans(ref, resp) ELSE ref
  /\ UNCHANGED <<lvl, prof, full, cand, ixr, pa, replay, req, mc>>

GetMyIxLans ==
  /\ run.pc = "get_my_ixlans"
  /\ \E resp \in IxLanResponses(MyIxLans) :
       /\ run' = OnMyIxLans(run, resp)
       /\ ref' = IF ref.pc = run.pc THEN OnMyIxLans(ref, resp) ELSE ref
  /\ UNCHANGED <<lvl, prof, full, cand, ixr, pa, replay, req, mc>>

GetBgpUpdates ==
  /\ run.pc = "get_bgp_updates"
  /\ \E resp \in UpdateResponses(run.days) :
       /\ run' = OnBgpUpdates(run, resp)
       /\ ref' = IF ref.pc = run.pc THEN OnBgpUpdates(ref, resp) ELSE ref
  /\ UNCHANGED <<lvl, prof, full, cand, ixr, pa, replay, req, mc>>

GetAnnouncedPrefixes ==
  /\ run.pc = "get_announced_prefixes"
  /\ \E resp \in PrefixResponses({12}) :
       /\ run' = OnAnnouncedPrefixes(run, resp)
       /\ ref' = IF ref.pc = run.pc THEN OnAnnouncedPrefixes(ref, resp) ELSE ref
  /\ UNCHANGED <<lvl, prof, full, cand, ixr, pa, replay, req, mc>>

GetAsOverview ==
  /\ run.pc = "get_as_overview"
  /\ \E resp \in OverviewResponses :
       /\ run' = OnOverview(run, resp)
       /\ ref' = IF ref.pc = run.pc THEN OnOverview(ref, resp) ELSE ref
  /\ UNCHANGED <<lvl, prof, full, cand, ixr, pa, replay, req, mc>>

GetAsNeighbours ==
  /\ run.pc = "get_as_neighbours"
  /\ \E resp \in NeighbourResponses :
       /\ run' = OnNeighbours(run, resp)
       /\ ref' = IF ref.pc = run.pc THEN OnNeighbours(ref, resp) ELSE ref
  /\ UNCHANGED <<lvl, prof, full, cand, ixr, pa, replay, req, mc>>

GetRpkiPrefixes ==
  /\ run.pc = "rpki_prefixes"
  /\ \E resp \in PrefixResponses(PrefixCounts) :
       /\ run' = OnRpkiPrefixes(run, resp)
       /\ ref' = IF ref.pc = run.pc THEN OnRpkiPrefixes(ref, resp) ELSE ref
  /\ UNCHANGED <<lvl, prof, full, cand, ixr, pa, replay, req, mc>>

Next ==
  \/ GetNetworkByAsn
  \/ GetNetworkIxLans
  \/ GetMyIxLans
  \/ GetBgpUpdates
  \/ GetAnnouncedPrefixes
  \/ GetAsOverview
  \/ GetAsNeighbours
  \/ GetRpkiPrefixes

Spec == Init /\ [][Next]_vars

-----------------------------------------------------------------------------
(* The risk level as a function of the total score: the classification at    *)
(* the end of run_peer_risk applied to every total in 0..MaxTotal.           *)

MaxTotal == 100

LevelInit ==
  /\ \E t \in 0..MaxTotal :
       lvl = [pc |-> "classify", total_score |-> t, risk_level |-> "",
              recommendation |-> ""]
  /\ run = Idle
  /\ ref = Idle
  /\ prof = Idle
  /\ full = Idle
  /\ cand = Idle
  /\ ixr = Idle
  /\ pa = Idle
  /\ replay = Idle
  /\ req = Idle
  /\ mc = Idle

Classify ==
  /\ lvl.pc = "classify"
  /\ lvl' = [lvl EXCEPT !.pc = "done",
                        !.risk_level = RiskLevel(lvl.total_score),
                        !.recommendation = RecommendationOf(lvl.total_score)]
  /\ UNCHANGED <<run, ref, prof, full, cand, ixr, pa, replay, req, mc>>

LevelNext == Classify

LevelSpec == LevelInit /\ [][LevelNext]_vars

-----------------------------------------------------------------------------
(* ASNAnalyzer.get_profile (analysis/asn.py): five facet coroutines run      *)
(* concurrently under asyncio.gather; each facet steps at its own awaits.    *)

\* list[:n]
Take(seq, n) == SubSeq(seq, 1, Min(n, Len(seq)))

RECURSIVE Pow2(_)
Pow2(n) == IF n = 0 THEN 1 ELSE 2 * Pow2(n - 1)

\* total_ips: the sum of 2 ** (32 - prefix_len) over the IPv4 prefixes
RECURSIVE TotalIps(_)
TotalIps(lens) == IF lens = <<>> THEN 0 ELSE Pow2(32 - Head(lens)) + TotalIps(Tail(lens))

\* Network records: the fields the profile reads
ProfileNetworks ==
  {[name |-> "ExampleNet", info_type |-> "NSP", website |-> "https://example.net",
    org_id |-> o, policy_general |-> "Open", looking_glass |-> "", route_server |-> "",
    irr_as_set |-> "AS-EXAMPLE"] : o \in {0, 7}}

NoProfileNetwork ==
  [name |-> "", info_type |-> "", website |-> "", org_id |-> 0, policy_general |-> "",
   looking_glass |-> "", route_server |-> "", irr_as_set |-> ""]

\* AS overview: holder and rir
Overviews == {[holder |-> h, rir |-> "RIPE"] : h \in Holders}

\* announced prefixes: the mask lengths of the IPv4 prefixes, the number of IPv6 ones
AnnouncedPrefixes == {[v4 |-> <<>>, v6 |-> 0], [v4 |-> <<24, 22>>, v6 |-> 1]}

\* AS neighbours: the lengths of the four lists
ProfileNeighbours ==
  {[upstreams |-> u, downstreams |-> 0, left |-> 1, right |-> u] : u \in 0..MaxUpstreams}

\* check_rpki_status: the lengths of the valid, invalid and not_found lists
RpkiResults ==
  {[valid |-> 0, invalid |-> 0, not_found |-> 1],
   [valid |-> 2, invalid |-> 0, not_found |-> 1],
   [valid |-> 0, invalid |-> 1, not_found |-> 0],
   [valid |-> 1, invalid |-> 1, not_found |-> 0]}

\* network presence: the names of the exchanges, the number of facilities
Presences ==
  {[exchanges |-> <<>>, facility_count |-> 0],
   [exchanges |-> <<"IX-A">>, facility_count |-> 1],
   [exchanges |-> <<"IX-A", "IX-B">>, facility_count |-> 1]}

UpstreamLists == {<<>>, <<3356, 174>>}

Coverages == {[probe_count |-> 3, connected_probes |-> 2, anchor_count |-> 1]}

Responses(values, zero, kinds) == {Ok(v) : v \in values} \cup {Fail(k, zero) : k \in kinds}

TopologyErrors == {"NotFound", "RateLimited", "Transient"}
MeasurementErrors == {"Transient", "AuthRequired"}

\* the zero values of the facets (analysis/models.py)
ZeroIdentity ==
  [name |-> "", rir |-> "", network_type |-> "", website |-> "", org_name |-> "",
   country |-> ""]
ZeroFootprint ==
  [ipv4_prefixes |-> 0, ipv6_prefixes |-> 0, total_prefixes |-> 0, ipv4_addresses |-> 0,
   upstream_count |-> 0, downstream_count |-> 0, peer_count |-> 0]
ZeroRpki ==
  [has_roas |-> FALSE, valid_prefixes |-> 0, invalid_prefixes |-> 0,
   not_found_prefixes |-> 0, coverage_percent |-> 0]
ZeroConnectivity ==
  [ix_count |-> 0, facility_count |-> 0, peering_policy |-> "", has_looking_glass |-> FALSE,
   has_route_server |-> FALSE, irr_as_set |-> "", ixes |-> <<>>, top_upstreams |-> <<>>]
ZeroAtlas == [probe_count |-> 0, connected_probes |-> 0, anchor_count |-> 0]

\* _assess_health with the redundancy check written upstream_count <= 2
AssessHealthLooseRedundancy(footprint, rpki, connectivity) ==
  LET a == IF rpki.invalid_prefixes > 0 THEN 2
           ELSE IF ~rpki.has_roas THEN 1 ELSE 0
      b == IF footprint.upstream_count <= 2 THEN 1 ELSE 0
      c == IF connectivity.ix_count = 1 THEN 1
           ELSE IF connectivity.ix_count = 0 /\ footprint.total_prefixes > 0 THEN 1
           ELSE 0
      issues == a + b + c
  IN IF issues >= 3 THEN "critical"
     ELSE IF issues >= 2 THEN "warning"
     ELSE IF issues = 0 THEN "healthy"
     ELSE "warning"

\* _assess_health
AssessHealth(footprint, rpki, connectivity) ==
  LET a == IF rpki.invalid_prefixes > 0 THEN 2
           ELSE IF ~rpki.has_roas THEN 1 ELSE 0
      b == IF footprint.upstream_count < 2 THEN 1 ELSE 0
      c == IF connectivity.ix_count = 1 THEN 1
           ELSE IF connectivity.ix_count = 0 /\ footprint.total_prefixes > 0 THEN 1
           ELSE 0
      issues == a + b + c
  IN IF issues >= 3 THEN "critical"
     ELSE IF issues >= 2 THEN "warning"
     ELSE IF issues = 0 THEN "healthy"
     ELSE "warning"

\* get_profile at the gather: no facet has been awaited yet
StartProfile ==
  [pc |-> "gather",
   identity_pc |-> "get_as_overview",
   footprint_pc |-> "get_announced_prefixes",
   rpki_pc |-> "check_rpki_status",
   connectivity_pc |-> "get_network_presence",
   atlas_pc |-> "get_asn_coverage",
   identity |-> ZeroIdentity,
   org_id |-> 0,
   footprint |-> ZeroFootprint,
   rpki |-> ZeroRpki,
   connectivity |-> ZeroConnectivity,
   atlas |-> ZeroAtlas,
   health |-> "",
   peeringdb_answered |-> FALSE,
   other_failed |-> FALSE]

\* what the providers did so far: whether a PeeringDB call succeeded, whether
\* a call to another provider failed
PeeringDBCall(p, resp) ==
  [p EXCEPT !.peeringdb_answered = @ \/ resp.kind = "ok"]
OtherCall(p, resp) ==
  [p EXCEPT !.other_failed = @ \/ resp.kind # "ok"]

ProfileInit ==
  /\ prof = StartProfile
  /\ run = Idle
  /\ ref = Idle
  /\ lvl = Idle
  /\ full = Idle
  /\ cand = Idle
  /\ ixr = Idle
  /\ pa = Idle
  /\ replay = Idle
  /\ req = Idle
  /\ mc = Idle

\* get_identity: overview = await self._ripestat.get_as_overview(...)
IdentityOverview ==
  /\ prof.pc = "gather" /\ prof.identity_pc = "get_as_overview"
  /\ \E resp \in Responses(Overviews, [holder |-> "", rir |-> ""], TopologyErrors) :
       LET p == OtherCall(prof, resp)
       IN prof' = IF resp.kind = "ok"
                  THEN [p EXCEPT !.identity.name = resp.value.holder,
                                 !.identity.rir = resp.value.rir,
                                 !.identity_pc = "get_network_by_asn"]
                  ELSE [p EXCEPT !.identity_pc = "get_network_by_asn"]
  /\ UNCHANGED <<run, ref, lvl, full, cand, ixr, pa, replay, req, mc>>

\* get_identity: network = await self._peeringdb.get_network_by_asn(asn); only
\* PeeringDBNotFoundError is handled
IdentityNetwork ==
  /\ prof.pc = "gather" /\ prof.identity_pc = "get_network_by_asn"
  /\ \E resp \in Responses(ProfileNetworks, NoProfileNetwork, ErrorKinds) :
       LET p == PeeringDBCall(prof, resp)
           network == resp.value
           named == IF p.identity.name = ""
                    THEN [p EXCEPT !.identity.name = network.name] ELSE p
       IN prof' =
            IF resp.kind = "ok"
            THEN [named EXCEPT !.identity.network_type = network.info_type,
                               !.identity.website = network.website,
                               !.org_id = network.org_id,
                               !.identity_pc = IF network.org_id # 0
                                               THEN "get_organization" ELSE "done"]
            ELSE IF resp.kind = "NotFound"
            THEN [p EXCEPT !.identity_pc = "done"]
            ELSE [p EXCEPT !.identity_pc = "raised", !.pc = "raised"]
  /\ UNCHANGED <<run, ref, lvl, full, cand, ixr, pa, replay, req, mc>>

\* get_identity: org = await self._peeringdb.get_organization(network.org_id)
IdentityOrganization ==
  /\ prof.pc = "gather" /\ prof.identity_pc = "get_organization"
  /\ \E resp \in Responses({[name |-> "Example Org", country |-> "NL"]},
                           [name |-> "", country |-> ""], ErrorKinds) :
       LET p == PeeringDBCall(prof, resp)
       IN prof' = IF resp.kind = "ok"
                  THEN [p EXCEPT !.identity.org_name = resp.value.name,
                                 !.identity.country = resp.value.country,
                                 !.identity_pc = "done"]
                  ELSE [p EXCEPT !.identity_pc = "done"]
  /\ UNCHANGED <<run, ref, lvl, full, cand, ixr, pa, replay, req, mc>>

\* get_routing_footprint: prefixes = await self._ripestat.get_announced_prefixes(...)
FootprintPrefixes ==
  /\ prof.pc = "gather" /\ prof.footprint_pc = "get_announced_prefixes"
  /\ \E resp \in Responses(AnnouncedPrefixes, [v4 |-> <<>>, v6 |-> 0], TopologyErrors) :
       LET p == OtherCall(prof, resp)
       IN prof' = IF resp.kind = "ok"
                  THEN [p EXCEPT !.footprint.ipv4_prefixes = Len(resp.value.v4),
                                 !.footprint.ipv6_prefixes = resp.value.v6,
                                 !.footprint.total_prefixes =
                                    Len(resp.value.v4) + resp.value.v6,
                                 !.footprint.ipv4_addresses = TotalIps(resp.value.v4),
                                 !.footprint_pc = "get_as_neighbours"]
                  ELSE [p EXCEPT !.footprint_pc = "get_as_neighbours"]
  /\ UNCHANGED <<run, ref, lvl, full, cand, ixr, pa, replay, req, mc>>

\* get_routing_footprint: neighbours = await self._ripestat.get_as_neighbours(...)
FootprintNeighbours ==
  /\ prof.pc = "gather" /\ prof.footprint_pc = "get_as_neighbours"
  /\ \E resp \in Responses(ProfileNeighbours,
                           [upstreams |-> 0, downstreams |-> 0, left |-> 0, right |-> 0],
                           TopologyErrors) :
       LET p == OtherCall(prof, resp)
       IN prof' = IF resp.kind = "ok"
                  THEN [p EXCEPT !.footprint.upstream_count = resp.value.upstreams,
                                 !.footprint.downstream_count = resp.value.downstreams,
                                 !.footprint.peer_count =
                                    resp.value.left + resp.value.right,
                                 !.footprint_pc = "done"]
                  ELSE [p EXCEPT !.footprint_pc = "done"]
  /\ UNCHANGED <<run, ref, lvl, full, cand, ixr, pa, replay, req, mc>>

\* get_rpki_status: rpki_data = await self._ripestat.check_rpki_status(...);
\* coverage_percent is kept as its integer part
RpkiStatus ==
  /\ prof.pc = "gather" /\ prof.rpki_pc = "check_rpki_status"
  /\ \E resp \in Responses(RpkiResults, [valid |-> 0, invalid |-> 0, not_found |-> 0],
                           TopologyErrors) :
       LET p == OtherCall(prof, resp)
           valid == resp.value.valid
           invalid == resp.value.invalid
           not_found == resp.value.not_found
           total == valid + invalid + not_found
       IN prof' = IF resp.kind = "ok"
                  THEN [p EXCEPT !.rpki.valid_prefixes = valid,
                                 !.rpki.invalid_prefixes = invalid,
                                 !.rpki.not_found_prefixes = not_found,
                                 !.rpki.has_roas = valid > 0,
                                 !.rpki.coverage_percent =
                                    IF total > 0 THEN (valid * 100) \div total ELSE 0,
                                 !.rpki_pc = "done"]
                  ELSE [p EXCEPT !.rpki_pc = "done"]
  /\ UNCHANGED <<run, ref, lvl, full, cand, ixr, pa, replay, req, mc>>

\* get_connectivity_profile: presence = await self._peeringdb.get_network_presence(asn)
ConnectivityPresence ==
  /\ prof.pc = "gather" /\ prof.connectivity_pc = "get_network_presence"
  /\ \E resp \in Responses(Presences, [exchanges |-> <<>>, facility_count |-> 0],
                           ErrorKinds) :
       LET p == PeeringDBCall(prof, resp)
       IN prof' = IF resp.kind = "ok"
                  THEN [p EXCEPT !.connectivity.ix_count = Len(resp.value.exchanges),
                                 !.connectivity.facility_count = resp.value.facility_count,
                                 !.connectivity.ixes = Take(resp.value.exchanges, 10),
                                 !.connectivity_pc = "get_network_by_asn"]
                  ELSE [p EXCEPT !.connectivity_pc = "get_upstream_asns"]
  /\ UNCHANGED <<run, ref, lvl, full, cand, ixr, pa, replay, req, mc>>

\* get_connectivity_profile: network = await self._peeringdb.get_network_by_asn(asn)
ConnectivityNetwork ==
  /\ prof.pc = "gather" /\ prof.connectivity_pc = "get_network_by_asn"
  /\ \E resp \in Responses(ProfileNetworks, NoProfileNetwork, ErrorKinds) :
       LET p == PeeringDBCall(prof, resp)
           network == resp.value
       IN prof' = IF resp.kind = "ok"
                  THEN [p EXCEPT !.connectivity.peering_policy = network.policy_general,
                                 !.connectivity.has_looking_glass =
                                    network.looking_glass # "",
                                 !.connectivity.has_route_server =
                                    network.route_server # "",
                                 !.connectivity.irr_as_set = network.irr_as_set,
                                 !.connectivity_pc = "get_upstream_asns"]
                  ELSE [p EXCEPT !.connectivity_pc = "get_upstream_asns"]
  /\ UNCHANGED <<run, ref, lvl, full, cand, ixr, pa, replay, req, mc>>

\* get_connectivity_profile: upstreams = await self._ripestat.get_upstream_asns(...)
ConnectivityUpstreams ==
  /\ prof.pc = "gather" /\ prof.connectivity_pc = "get_upstream_asns"
  /\ \E resp \in Responses(UpstreamLists, <<>>, TopologyErrors) :
       LET p == OtherCall(prof, resp)
       IN prof' = IF resp.kind = "ok"
                  THEN [p EXCEPT !.connectivity.top_upstreams = Take(resp.value, 5),
                                 !.connectivity_pc = "done"]
                  ELSE [p EXCEPT !.connectivity_pc = "done"]
  /\ UNCHANGED <<run, ref, lvl, full, cand, ixr, pa, replay, req, mc>>

\* get_atlas_coverage: data = await self._atlas.get_asn_coverage(asn)
AtlasCoverage ==
  /\ prof.pc = "gather" /\ prof.atlas_pc = "get_asn_coverage"
  /\ \E resp \in Responses(Coverages, ZeroAtlas, MeasurementErrors) :
       LET p == OtherCall(prof, resp)
       IN prof' = IF resp.kind = "ok"
                  THEN [p EXCEPT !.atlas = resp.value, !.atlas_pc = "done"]
                  ELSE [p EXCEPT !.atlas_pc = "done"]
  /\ UNCHANGED <<run, ref, lvl, full, cand, ixr, pa, replay, req, mc>>

\* the gather returns once the five facets are there; health is derived
Gathered ==
  /\ prof.pc = "gather"
  /\ prof.identity_pc = "done" /\ prof.footprint_pc = "done" /\ prof.rpki_pc = "done"
  /\ prof.connectivity_pc = "done" /\ prof.atlas_pc = "done"
  /\ prof' = [prof EXCEPT
                !.health = AssessHealth(prof.footprint, prof.rpki, prof.connectivity),
                !.pc = "done"]
  /\ UNCHANGED <<run, ref, lvl, full, cand, ixr, pa, replay, req, mc>>

ProfileNext ==
  \/ IdentityOverview
  \/ IdentityNetwork
  \/ IdentityOrganization
  \/ FootprintPrefixes
  \/ FootprintNeighbours
  \/ RpkiStatus
  \/ ConnectivityPresence
  \/ ConnectivityNetwork
  \/ ConnectivityUpstreams
  \/ AtlasCoverage
  \/ Gathered

ProfileSpec == ProfileInit /\ [][ProfileNext]_vars

-----------------------------------------------------------------------------
(* Properties of the peer-risk assessment.                                   *)

Categories == {"maturity", "stability", "incident_history", "policy", "security"}

ScoreOf(r, category) == r.risk_data.scores[category].score

Finished(r) == r.pc = "done"

\* C2: supplying myASN never changes the score: the five category scores, the
\* total and the risk level of the assessment with myASN equal those of the
\* assessment without it under the same provider answers, also when the fetch
\* of myASN's own IX connections fails.
C2_MyAsnDoesNotAffectScore ==
  (Finished(run) /\ Finished(ref)) =>
    /\ \A c \in Categories : ScoreOf(run, c) = ScoreOf(ref, c)
    /\ run.risk_data.total_score = ref.risk_data.total_score
    /\ run.risk_data.risk_level = ref.risk_data.risk_level

\* the awaits of run_peer_risk's scoring phase
Awaits ==
  {"get_network", "get_ixlans", "get_my_ixlans", "get_bgp_updates",
   "get_announced_prefixes", "get_as_overview", "get_as_neighbours", "rpki_prefixes"}

\* C3: the assessment never aborts: whichever provider calls fail, no
\* exception escapes (the coroutine is at one of its awaits until it has
\* finished), and at the end all five category scores, a total and a risk
\* level are present.
C3_NeverAborts ==
  /\ run.pc # "raised"
  /\ ~Finished(run) => run.pc \in Awaits
  /\ Finished(run) =>
       /\ DOMAIN run.risk_data.scores = Categories
       /\ "total_score" \in DOMAIN run.risk_data
       /\ run.risk_data.risk_level \in {"LOW", "MODERATE", "ELEVATED", "HIGH"}
       /\ run.risk_data.recommendation
            \in {"RECOMMENDED", "ACCEPTABLE", "CAUTION", "NOT RECOMMENDED"}

\* C3 witness: an assessment that finished although the network lookup, the
\* BGP-update fetch, the overview fetch and the RPKI-context prefix fetch failed.
C3_Witness ==
  /\ Finished(run)
  /\ {"get_network_by_asn", "get_bgp_updates", "get_as_overview",
      "get_announced_prefixes(rpki)"} \subseteq run.failures

\* C4: a category one of whose provider calls failed scores its pre-deduction
\* baseline: maturity 0 when a lookup for the target failed, stability 30 when
\* the BGP-update or announced-prefix fetch failed, incident history 30 when
\* the overview or neighbour fetch failed.
C4_FailureGivesBaseline ==
  Finished(run) =>
    /\ (run.failures \cap {"get_network_by_asn", "get_network_ixlans"} # {}
          => ScoreOf(run, "maturity") = 0)
    /\ (run.failures \cap {"get_bgp_updates", "get_announced_prefixes"} # {}
          => ScoreOf(run, "stability") = 30)
    /\ (run.failures \cap {"get_as_overview", "get_as_neighbours"} # {}
          => ScoreOf(run, "incident_history") = 30)

\* the warnings that explain a failed provider call
FailureWarnings ==
  {"Not in PeeringDB - cannot verify network details", "PeeringDB lookup failed",
   "Could not fetch stability data", "Could not verify topology"}

\* C5: every failed provider call is recorded: the warnings list holds at
\* least one explanatory entry for each provider call that failed.
C5_EveryFailureWarned ==
  run.pc # "idle" =>
    Cardinality({i \in 1..Len(run.risk_data.warnings) :
                   run.risk_data.warnings[i] \in FailureWarnings})
      >= Cardinality(run.failures)

\* the policy value obtained for the target: none when the network lookup failed
ObtainedPolicy(r) ==
  IF "get_network_by_asn" \in r.failures THEN "" ELSE r.network.policy_general

\* C6: the policy score is 10 for open, 7 for selective, 3 for restrictive,
\* 5 for any other non-empty value and 0 when no policy value was obtained
\* (empty field, target not found, lookup failed).
C6_PolicyTable ==
  Finished(run) =>
    ScoreOf(run, "policy") =
      (CASE ObtainedPolicy(run) = "" -> 0
         [] ObtainedPolicy(run) \in {"Open", "open"} -> 10
         [] ObtainedPolicy(run) \in {"Selective", "selective"} -> 7
         [] ObtainedPolicy(run) \in {"Restrictive", "restrictive"} -> 3
         [] OTHER -> 5)

\* the stability score is recorded and the BGP-update fetch had succeeded
StabilityScored(r) ==
  /\ r.pc \notin {"idle", "raised"}
  /\ "stability" \in DOMAIN r.risk_data.scores
  /\ r.update_count >= 0
  /\ r.days >= 1

TierFactors == {"High churn", "Moderate churn", "Some activity", "Stable routing (+0)"}

\* C8 as stated: the stability score is 30 - d with d the real number
\* min(25, u/20), min(15, u/10), min(5, u/5) or 0 of the tier of
\* u = total_updates / lookbackDays (both sides multiplied by the divisor).
C8_RealDeduction ==
  StabilityScored(run) =>
    LET n == run.update_count
        D == run.days
        s == ScoreOf(run, "stability")
    IN /\ n > 100 * D => s * 20 * D = Max(0, 600 * D - Min(500 * D, n))
       /\ (n > 50 * D /\ n <= 100 * D) => s * 10 * D = Max(0, 300 * D - Min(150 * D, n))
       /\ (n > 10 * D /\ n <= 50 * D) => s * 5 * D = Max(0, 150 * D - Min(25 * D, n))
       /\ n <= 10 * D => s = 30

\* floor(n / m) = q
IsFloor(q, n, m) == q * m <= n /\ n < (q + 1) * m

\* C8 (amended): the stability score is max(0, 30 - d) with d the deduction
\* of the one tier of u, the quotient rounded down to a whole number before
\* the cap: min(25, floor(u/20)), min(15, floor(u/10)), min(5, floor(u/5)),
\* or 0; exactly one tier factor string is recorded.
C8_FloorDeduction ==
  StabilityScored(run) =>
    LET n == run.update_count
        D == run.days
        s == ScoreOf(run, "stability")
        f == run.risk_data.scores["stability"].factors
    IN /\ n > 100 * D =>
            \E q \in 0..n : IsFloor(q, n, 20 * D) /\ s = Max(0, 30 - Min(25, q))
       /\ (n > 50 * D /\ n <= 100 * D) =>
            \E q \in 0..n : IsFloor(q, n, 10 * D) /\ s = Max(0, 30 - Min(15, q))
       /\ (n > 10 * D /\ n <= 50 * D) =>
            \E q \in 0..n : IsFloor(q, n, 5 * D) /\ s = Max(0, 30 - Min(5, q))
       /\ n <= 10 * D => s = 30
       /\ Cardinality({i \in 1..Len(f) : f[i] \in TierFactors}) = 1

\* C8 witness: a scored assessment in the top tier whose rate is not a
\* multiple of 20, so that rounding down matters.
C8_Witness ==
  /\ StabilityScored(run)
  /\ run.update_count > 100 * run.days
  /\ run.update_count % (20 * run.days) # 0
  /\ ScoreOf(run, "stability") = 25

CategoryMax ==
  [maturity |-> 20, stability |-> 30, incident_history |-> 30, policy |-> 10,
   security |-> 10]

-----------------------------------------------------------------------------
(* Properties of the risk-level classification.                              *)

\* C7: the risk level is a step function of the total with inclusive lower
\* bounds: >= 80 LOW/RECOMMENDED, 60..79 MODERATE/ACCEPTABLE, 40..59
\* ELEVATED/CAUTION, below 40 HIGH/NOT RECOMMENDED; 80 is LOW, 79 MODERATE,
\* 59 ELEVATED and 39 HIGH.
C7_RiskLevelSteps ==
  lvl.pc = "done" =>
    LET t == lvl.total_score
        is(level, rec) == lvl.risk_level = level /\ lvl.recommendation = rec
    IN /\ t >= 80 => is("LOW", "RECOMMENDED")
       /\ t \in 60..79 => is("MODERATE", "ACCEPTABLE")
       /\ t \in 40..59 => is("ELEVATED", "CAUTION")
       /\ t < 40 => is("HIGH", "NOT RECOMMENDED")
       /\ t = 80 => lvl.risk_level = "LOW"
       /\ t = 79 => lvl.risk_level = "MODERATE"
       /\ t = 59 => lvl.risk_level = "ELEVATED"
       /\ t = 39 => lvl.risk_level = "HIGH"

\* C7 witness: the total 80 has been classified LOW.
C7_Witness ==
  lvl.pc = "done" /\ lvl.total_score = 80 /\ lvl.risk_level = "LOW"

-----------------------------------------------------------------------------
(* Properties of get_profile.                                                *)

\* C1: when every PeeringDB call made during get_profile fails and the other
\* providers answer, get_profile does not raise, and the profile it returns
\* has the zero ConnectivityProfile (ix_count 0, empty lists) and a health
\* status.
C1_PeeringDBOutageTolerated ==
  (prof.pc # "idle" /\ ~prof.peeringdb_answered /\ ~prof.other_failed) =>
    /\ prof.pc # "raised"
    /\ prof.pc = "done" =>
         /\ prof.connectivity.ix_count = 0
         /\ prof.connectivity.ixes = <<>>
         /\ prof.health \in {"healthy", "warning", "critical"}

\* the issue count of a profile, as the contract words it
Issues(p) ==
  (IF p.rpki.invalid_prefixes > 0 THEN 2 ELSE IF p.rpki.has_roas = FALSE THEN 1 ELSE 0)
  + (IF p.footprint.upstream_count < 2 THEN 1 ELSE 0)
  + (IF p.connectivity.ix_count = 1
        \/ (p.connectivity.ix_count = 0 /\ p.footprint.total_prefixes > 0)
     THEN 1 ELSE 0)

\* C10: the health status of a returned profile is decided by the issue
\* count: 3 or more critical, 1 or 2 warning, 0 healthy; no other status is
\* returned.
C10_HealthFromIssues ==
  prof.pc = "done" =>
    /\ Issues(prof) >= 3 => prof.health = "critical"
    /\ Issues(prof) \in {1, 2} => prof.health = "warning"
    /\ Issues(prof) = 0 => prof.health = "healthy"
    /\ prof.health \in {"healthy", "warning", "critical"}

\* C10 witness: a returned profile with exactly two upstreams, which does not
\* count as low redundancy, and no other issue: healthy.
C10_Witness ==
  /\ prof.pc = "done"
  /\ prof.footprint.upstream_count = 2
  /\ Issues(prof) = 0
  /\ prof.health = "healthy"

-----------------------------------------------------------------------------
(* RouteSherlock.full_analysis (analysis/analyzer.py): three coroutines run  *)
(* concurrently under asyncio.gather (profile, peering report,               *)
(* recommendations), then the sampled prefix is analysed and the health      *)
(* score computed.  The peering report (analysis/peering.py,                 *)
(* get_peering_report) steps at its own awaits.  An awaited analyzer         *)
(* (get_profile, find_peering_candidates, recommend_ixes, analyze_paths,     *)
(* detect_anomalies) is one step whose outcome is drawn from the outcomes    *)
(* that analyzer has: a value, or the exception it lets through.             *)

\* what get_profile returns: footprint, rpki, connectivity and the health
\* _assess_health derives from them
ProfileOf(total_prefixes, upstreams, valid, invalid, ix_count, irr) ==
  LET footprint == [ZeroFootprint EXCEPT !.total_prefixes = total_prefixes,
                                         !.ipv4_prefixes = total_prefixes,
                                         !.upstream_count = upstreams]
      rpki == [ZeroRpki EXCEPT !.has_roas = valid > 0,
                               !.valid_prefixes = valid,
                               !.invalid_prefixes = invalid,
                               !.coverage_percent =
                                  IF valid + invalid > 0
                                  THEN (valid * 100) \div (valid + invalid) ELSE 0]
      connectivity == [ZeroConnectivity EXCEPT !.ix_count = ix_count,
                                               !.irr_as_set = irr]
  IN [footprint |-> footprint, rpki |-> rpki, connectivity |-> connectivity,
      health |-> AssessHealth(footprint, rpki, connectivity)]

FullProfiles ==
  {ProfileOf(0, 0, 0, 0, 0, ""),
   ProfileOf(12, 2, 12, 0, 2, "AS-EXAMPLE"),
   ProfileOf(12, 1, 6, 6, 0, ""),
   ProfileOf(4, 2, 2, 0, 1, "AS-EXAMPLE")}

NoProfile == ProfileOf(0, 0, 0, 0, 0, "")

\* get_profile returns a profile or lets a PeeringDB error that is not
\* PeeringDBNotFoundError through (get_identity catches only that one)
ProfileOutcomes == Responses(FullProfiles, NoProfile, {"Transient"})

\* PeeringReport(asn=asn)
ZeroPeeringReport ==
  [name |-> "", current_ix_count |-> 0, current_peer_count |-> 0,
   candidates |-> <<>>, ix_recommendations |-> <<>>, estimated_traffic_shift |-> 0]

\* the IX ids of the target's connections, the member ASNs of an IX
ReportIxLans == {{}, {1}, {1, 2}}
ReportMembers == {{TargetASN}, {TargetASN, 64510}, {TargetASN, 64510, 64511}}

\* find_peering_candidates returns candidates (here their scores) or lets a
\* PeeringDB error that is not PeeringDBNotFoundError through; recommend_ixes
\* likewise (here the ids of the recommended IXes)
CandidateOutcomes == Responses({<<>>, <<7, 4>>, <<6, 6>>}, <<>>, {"Transient"})
IxRecommendationOutcomes == Responses({<<>>, <<31>>}, <<>>, {"Transient"})

\* what analyze_paths and detect_anomalies return (neither raises)
SamplePathAnalyses == {[path_count |-> 0], [path_count |-> 3]}
SampleAnomalyReports ==
  {[anomaly_count |-> n, risk_level |-> l] :
     n \in {1}, l \in {"low", "medium", "high", "critical"}}
     \cup {[anomaly_count |-> 0, risk_level |-> "low"]}

NoAnalysis == [path_count |-> 0]
NoAnomalies == [anomaly_count |-> 0, risk_level |-> ""]

\* get_recommendations: the types of the recommendations, in order
RecommendationsFor(profile) ==
  (IF profile.rpki.invalid_prefixes > 0 THEN <<"deploy_rpki">>
   ELSE IF ~profile.rpki.has_roas THEN <<"deploy_rpki">>
   ELSE IF profile.rpki.coverage_percent < 100 THEN <<"deploy_rpki">>
   ELSE <<>>)
  \o (IF profile.footprint.upstream_count < 2 THEN <<"add_upstream">> ELSE <<>>)
  \o (IF profile.connectivity.ix_count = 0 /\ profile.footprint.total_prefixes > 10
      THEN <<"join_ix">> ELSE <<>>)
  \o (IF profile.connectivity.irr_as_set = "" THEN <<"update_irr">> ELSE <<>>)

\* _calculate_health_score, in tenths of a point
CalculateHealthScore(report) ==
  LET rpki == report.profile.rpki
      s1 == IF rpki.invalid_prefixes > 0 THEN 1000 - 300
            ELSE IF ~rpki.has_roas THEN 1000 - 200
            ELSE IF rpki.coverage_percent < 100 THEN 1000 - (100 - rpki.coverage_percent)
            ELSE 1000
      s2 == IF report.profile.footprint.upstream_count < 2 THEN s1 - 150 ELSE s1
      s3 == IF report.profile.connectivity.ix_count = 0 THEN s2 - 100 ELSE s2
      s4 == IF ~report.has_anomalies THEN s3
            ELSE IF report.anomalies.risk_level = "critical" THEN s3 - 300
            ELSE IF report.anomalies.risk_level = "high" THEN s3 - 200
            ELSE IF report.anomalies.risk_level = "medium" THEN s3 - 100
            ELSE s3
      s5 == IF report.profile.health = "critical" THEN Min(s4, 400)
            ELSE IF report.profile.health = "warning" THEN Min(s4, 700)
            ELSE s4
  IN Max(0, Min(1000, s5))

\* AnalysisReport(asn=asn); has_profile, has_anomalies tell a set field from None
ZeroReport ==
  [has_profile |-> FALSE, profile |-> NoProfile, peering |-> ZeroPeeringReport,
   recommendations |-> <<>>, has_path_analysis |-> FALSE, path_analysis |-> NoAnalysis,
   has_anomalies |-> FALSE, anomalies |-> NoAnomalies, health_score |-> 0]

\* full_analysis at its gather: no branch has been awaited yet
StartFull ==
  [pc |-> "gather",
   profile_pc |-> "get_profile",
   peering_pc |-> "get_network_by_asn",
   recommendations_pc |-> "get_profile",
   profile |-> NoProfile,
   peering |-> ZeroPeeringReport,
   recommendations |-> <<>>,
   ix_ids |-> {},
   peer_asns |-> {},
   peering_failure |-> "",
   report |-> ZeroReport]

FullInit ==
  /\ full = StartFull
  /\ run = Idle
  /\ ref = Idle
  /\ lvl = Idle
  /\ prof = Idle
  /\ cand = Idle
  /\ ixr = Idle
  /\ pa = Idle
  /\ replay = Idle
  /\ req = Idle
  /\ mc = Idle

\* report.health_score = self._calculate_health_score(report); return report
FinishFull(f) ==
  [f EXCEPT !.report.health_score = CalculateHealthScore(f.report), !.pc = "done"]

\* profile_task: self._asn_analyzer.get_profile(asn)
FullProfile ==
  /\ full.pc = "gather" /\ full.profile_pc = "get_profile"
  /\ \E out \in ProfileOutcomes :
       full' = IF out.kind = "ok"
               THEN [full EXCEPT !.profile = out.value, !.profile_pc = "done"]
               ELSE [full EXCEPT !.profile_pc = "raised"]
  /\ UNCHANGED <<run, ref, lvl, prof, cand, ixr, pa, replay, req, mc>>

\* the handlers of get_peering_report: except PeeringDBNotFoundError: pass
\* returns the report as far as it was filled; any other error leaves the
\* coroutine
ReportFailed(f, kind) ==
  IF kind = "NotFound" THEN [f EXCEPT !.peering_pc = "done"]
  ELSE [f EXCEPT !.peering_pc = "raised", !.peering_failure = kind]

\* get_peering_report: network = await self._peeringdb.get_network_by_asn(asn)
ReportNetwork ==
  /\ full.pc = "gather" /\ full.peering_pc = "get_network_by_asn"
  /\ \E resp \in Responses({"ExampleNet"}, "", ErrorKinds) :
       full' = IF resp.kind = "ok"
               THEN [full EXCEPT !.peering.name = resp.value,
                                 !.peering_pc = "get_network_ixlans"]
               ELSE ReportFailed(full, resp.kind)
  /\ UNCHANGED <<run, ref, lvl, prof, cand, ixr, pa, replay, req, mc>>

\* after the member loop: peer_asns.discard(asn); report.current_peer_count
CountPeers(f) ==
  [f EXCEPT !.peering.current_peer_count = Cardinality(f.peer_asns \ {TargetASN}),
            !.peering_pc = "gather"]

\* get_peering_report: ixlans = await self._peeringdb.get_network_ixlans(asn)
ReportGetIxLans ==
  /\ full.pc = "gather" /\ full.peering_pc = "get_network_ixlans"
  /\ \E resp \in Responses(ReportIxLans, {}, ErrorKinds) :
       full' = IF resp.kind = "ok"
               THEN LET f == [full EXCEPT
                                !.peering.current_ix_count = Cardinality(resp.value),
                                !.ix_ids = resp.value]
                    IN IF resp.value = {} THEN CountPeers(f)
                       ELSE [f EXCEPT !.peering_pc = "get_ix_members"]
               ELSE ReportFailed(full, resp.kind)
  /\ UNCHANGED <<run, ref, lvl, prof, cand, ixr, pa, replay, req, mc>>

\* get_peering_report: members = await self._peeringdb.get_ix_members(ix_id),
\* one IX of the set per step; except Exception: continue
ReportIxMembers ==
  /\ full.pc = "gather" /\ full.peering_pc = "get_ix_members"
  /\ \E ix_id \in full.ix_ids, resp \in Responses(ReportMembers, {}, ErrorKinds) :
       LET f == [full EXCEPT !.ix_ids = @ \ {ix_id},
                             !.peer_asns = IF resp.kind = "ok" THEN @ \cup resp.value
                                           ELSE @]
       IN full' = IF f.ix_ids = {} THEN CountPeers(f) ELSE f
  /\ UNCHANGED <<run, ref, lvl, prof, cand, ixr, pa, replay, req, mc>>

\* estimated_traffic_shift: min(len([c for c in candidates if c.score > 5]) * 5.0, 50.0)
TrafficShift(candidates) ==
  IF candidates = <<>> THEN 0
  ELSE Min(Cardinality({i \in DOMAIN candidates : candidates[i] > 5}) * 5, 50)

\* get_peering_report: candidates, ix_recs = await asyncio.gather(
\* find_peering_candidates, recommend_ixes)
ReportGather ==
  /\ full.pc = "gather" /\ full.peering_pc = "gather"
  /\ \E c \in CandidateOutcomes, r \in IxRecommendationOutcomes :
       full' = IF c.kind # "ok" THEN ReportFailed(full, c.kind)
               ELSE IF r.kind # "ok" THEN ReportFailed(full, r.kind)
               ELSE [full EXCEPT !.peering.candidates = c.value,
                                 !.peering.ix_recommendations = r.value,
                                 !.peering.estimated_traffic_shift = TrafficShift(c.value),
                                 !.peering_pc = "done"]
  /\ UNCHANGED <<run, ref, lvl, prof, cand, ixr, pa, replay, req, mc>>

\* recommendations_task: get_recommendations awaits get_profile itself
FullRecommendations ==
  /\ full.pc = "gather" /\ full.recommendations_pc = "get_profile"
  /\ \E out \in ProfileOutcomes :
       full' = IF out.kind = "ok"
               THEN [full EXCEPT !.recommendations = RecommendationsFor(out.value),
                                 !.recommendations_pc = "done"]
               ELSE [full EXCEPT !.recommendations_pc = "raised"]
  /\ UNCHANGED <<run, ref, lvl, prof, cand, ixr, pa, replay, req, mc>>

\* await asyncio.gather(profile_task, peering_task, recommendations_task): the
\* first exception of a branch is raised to full_analysis, which has no
\* handler around the gather
FullJoinRaises ==
  /\ full.pc = "gather"
  /\ "raised" \in {full.profile_pc, full.peering_pc, full.recommendations_pc}
  /\ full' = [full EXCEPT !.pc = "raised"]
  /\ UNCHANGED <<run, ref, lvl, prof, cand, ixr, pa, replay, req, mc>>

\* the gather returns the three results; report.profile, report.peering,
\* report.recommendations are set
FullJoin ==
  /\ full.pc = "gather"
  /\ full.profile_pc = "done" /\ full.peering_pc = "done"
  /\ full.recommendations_pc = "done"
  /\ LET f == [full EXCEPT !.report.has_profile = TRUE,
                           !.report.profile = full.profile,
                           !.report.peering = full.peering,
                           !.report.recommendations = full.recommendations]
     IN full' = IF full.profile.footprint.total_prefixes > 0
                THEN [f EXCEPT !.pc = "get_announced_prefixes"]
                ELSE FinishFull(f)
  /\ UNCHANGED <<run, ref, lvl, prof, cand, ixr, pa, replay, req, mc>>

\* prefixes = await self._ripestat.get_announced_prefixes(str(asn)), the number
\* of prefixes answered; except Exception: pass
FullAnnouncedPrefixes ==
  /\ full.pc = "get_announced_prefixes"
  /\ \E resp \in Responses({0, 12}, 0, TopologyErrors) :
       full' = IF resp.kind = "ok" /\ resp.value > 0
               THEN [full EXCEPT !.pc = "analyze_paths"]
               ELSE FinishFull(full)
  /\ UNCHANGED <<run, ref, lvl, prof, cand, ixr, pa, replay, req, mc>>

\* report.path_analysis = await self._path_analyzer.analyze_paths(sample_prefix)
FullAnalyzePaths ==
  /\ full.pc = "analyze_paths"
  /\ \E analysis \in SamplePathAnalyses :
       full' = [full EXCEPT !.report.has_path_analysis = TRUE,
                            !.report.path_analysis = analysis,
                            !.pc = "detect_anomalies"]
  /\ UNCHANGED <<run, ref, lvl, prof, cand, ixr, pa, replay, req, mc>>

\* report.anomalies = await self._path_analyzer.detect_anomalies(sample_prefix)
FullDetectAnomalies ==
  /\ full.pc = "detect_anomalies"
  /\ \E anomalies \in SampleAnomalyReports :
       full' = FinishFull([full EXCEPT !.report.has_anomalies = TRUE,
                                       !.report.anomalies = anomalies])
  /\ UNCHANGED <<run, ref, lvl, prof, cand, ixr, pa, replay, req, mc>>

FullNext ==
  \/ FullProfile
  \/ ReportNetwork
  \/ ReportGetIxLans
  \/ ReportIxMembers
  \/ ReportGather
  \/ FullRecommendations
  \/ FullJoinRaises
  \/ FullJoin
  \/ FullAnnouncedPrefixes
  \/ FullAnalyzePaths
  \/ FullDetectAnomalies

FullSpec == FullInit /\ [][FullNext]_vars

\* C11: full_analysis never fails as a whole: whatever a branch of the gather
\* does, the call does not end in an exception.
C11_JoinNeverFails == full.pc # "raised"

-----------------------------------------------------------------------------
(* PeeringAnalyzer.find_peering_candidates (analysis/peering.py): one step   *)
(* per await.  candidate_map is a dict; it is kept as the sequence of its    *)
(* values in insertion order, which is the order list(candidate_map.values())*)
(* hands to the sort.                                                        *)

\* for ix_id in list(target_ix_ids)[:10]
IxScanLimit == 10

\* max_candidates: int = 20
DefaultMaxCandidates == 20

\* the arguments max_candidates the calls are made with
Limits == {0, 1, DefaultMaxCandidates}

\* netixlan records of the target: their ix_id
CandIxLans == {<<>>, <<1>>, <<1, 2>>, <<2, 1, 2>>}

\* the upstream ASNs RIPEstat knows of the target
CandUpstreams == {{}, {64510}}

\* netixlan records of an IX: their asn (a network may hold several ports)
CandMembers == {<<TargetASN, 64510>>, <<64510, 64511>>, <<64511, 64510, 64510>>}

\* InternetExchange.name
IxName(ix_id) ==
  CASE ix_id = 1 -> "IX-A"
    [] ix_id = 2 -> "IX-B"
    [] OTHER -> "IX-C"

\* Network records: the fields find_peering_candidates reads
CandNetworks ==
  {[name |-> "OpenNet", policy_general |-> "Open", info_ratio |-> "Balanced"],
   [name |-> "SelectiveNet", policy_general |-> "Selective", info_ratio |-> ""],
   [name |-> "ClosedNet", policy_general |-> "Restrictive",
    info_ratio |-> "Mostly Inbound"]}

NoCandNetwork == [name |-> "", policy_general |-> "", info_ratio |-> ""]

\* _score_candidate with the IX count left out of the sum
ScoreCandidateNoIxCount(candidate, upstream_asns) ==
  (IF Lower(candidate.peering_policy) = "open" THEN 2
   ELSE IF Lower(candidate.peering_policy) = "selective" THEN 1
   ELSE 0)
  + (IF candidate.asn \in upstream_asns THEN 3 ELSE 0)
  + (IF Lower(candidate.traffic_ratio) \in {"balanced", "mostly inbound"} THEN 1 ELSE 0)

\* _score_candidate; every term is a whole number of points
ScoreCandidate(candidate, upstream_asns) ==
  (IF Lower(candidate.peering_policy) = "open" THEN 2
   ELSE IF Lower(candidate.peering_policy) = "selective" THEN 1
   ELSE 0)
  + candidate.common_ix_count * 1
  + (IF candidate.asn \in upstream_asns THEN 3 ELSE 0)
  + (IF Lower(candidate.traffic_ratio) \in {"balanced", "mostly inbound"} THEN 1 ELSE 0)

\* the insertion of a sort without reverse=True
RECURSIVE InsertByScoreAscending(_, _)
InsertByScoreAscending(sorted, c) ==
  IF sorted = <<>> THEN <<c>>
  ELSE IF Head(sorted).score <= c.score
       THEN <<Head(sorted)>> \o InsertByScoreAscending(Tail(sorted), c)
       ELSE <<c>> \o sorted

\* list.sort(key=lambda x: x.score, reverse=True): stable, equal scores keep
\* their order
RECURSIVE InsertByScore(_, _)
InsertByScore(sorted, c) ==
  IF sorted = <<>> THEN <<c>>
  ELSE IF Head(sorted).score >= c.score
       THEN <<Head(sorted)>> \o InsertByScore(Tail(sorted), c)
       ELSE <<c>> \o sorted

RECURSIVE SortByScore(_)
SortByScore(seq) ==
  IF seq = <<>> THEN <<>>
  ELSE InsertByScore(SortByScore(SubSeq(seq, 1, Len(seq) - 1)), seq[Len(seq)])

\* find_peering_candidates up to its first await
StartCandidates(max_candidates) ==
  [pc |-> "get_network_ixlans",
   max_candidates |-> max_candidates,
   target_ix_ids |-> {},
   upstream_asns |-> {},
   todo |-> {},
   scanned |-> 0,
   ix_id |-> 0,
   ix_name |-> "",
   members |-> <<>>,
   member |-> NoASN,
   seen_asns |-> {},
   candidate_map |-> <<>>,
   candidates |-> <<>>,
   failure |-> "",
   answered |-> {},
   failed |-> FALSE]

\* what the providers did so far: whether a call failed (kept in failed), which
\* <<ix_id, asn>> memberships get_ix_members answered (kept in answered)
Heard(c, resp) == [c EXCEPT !.failed = @ \/ resp.kind # "ok"]

\* return candidates[:max_candidates]
ReturnCandidates(c, candidates) ==
  [c EXCEPT !.candidates = Take(candidates, c.max_candidates), !.pc = "done"]

\* candidates = list(candidate_map.values()); c.score = ...; candidates.sort(...)
FinishCandidates(c) ==
  LET scored == [i \in DOMAIN c.candidate_map |->
                   [c.candidate_map[i] EXCEPT
                      !.score = ScoreCandidate(c.candidate_map[i], c.upstream_asns)]]
  IN ReturnCandidates([c EXCEPT !.candidate_map = scored], SortByScore(scored))

\* the head of the loop over list(target_ix_ids)[:10]
NextIx(c) ==
  IF c.todo = {} \/ c.scanned = IxScanLimit THEN FinishCandidates(c)
  ELSE [c EXCEPT !.pc = "get_ix_members"]

\* candidate_map[member.asn].common_ix_count += 1; .common_ixes.append(ix.name)
SeenAgain(c, asn) ==
  [c EXCEPT !.candidate_map =
     [i \in DOMAIN c.candidate_map |->
        IF c.candidate_map[i].asn = asn
        THEN [c.candidate_map[i] EXCEPT !.common_ix_count = @ + 1,
                                        !.common_ixes = Append(@, c.ix_name)]
        ELSE c.candidate_map[i]]]

\* for member in members: up to the next await (get_network_by_asn of an
\* unseen member) or the end of the list (asyncio.sleep, then the next IX)
RECURSIVE ScanMembers(_)
ScanMembers(c) ==
  IF c.members = <<>> THEN NextIx(c)
  ELSE LET asn == Head(c.members)
           rest == [c EXCEPT !.members = Tail(c.members)]
       IN IF asn = TargetASN THEN ScanMembers(rest)
          ELSE IF asn \in c.seen_asns THEN ScanMembers(SeenAgain(rest, asn))
          ELSE [rest EXCEPT !.seen_asns = @ \cup {asn}, !.member = asn,
                            !.pc = "get_network_by_asn"]

\* target_ixlans = await self._peeringdb.get_network_ixlans(asn); the outer
\* handler is except PeeringDBNotFoundError: pass
CandGetIxLans ==
  /\ cand.pc = "get_network_ixlans"
  /\ \E resp \in IxLanResponses(CandIxLans) :
       cand' = IF resp.kind = "ok"
               THEN LET c == [Heard(cand, resp) EXCEPT !.target_ix_ids = IxIds(resp.value),
                                          !.todo = IxIds(resp.value)]
                    IN IF c.target_ix_ids = {} THEN ReturnCandidates(c, <<>>)
                       ELSE [c EXCEPT !.pc = "get_as_neighbours"]
               ELSE IF resp.kind = "NotFound" THEN ReturnCandidates(Heard(cand, resp), <<>>)
               ELSE [Heard(cand, resp) EXCEPT !.pc = "raised", !.failure = resp.kind]
  /\ UNCHANGED <<run, ref, lvl, prof, full, ixr, pa, replay, req, mc>>

\* neighbours = await self._ripestat.get_as_neighbours(str(asn)); except Exception: pass
CandGetNeighbours ==
  /\ cand.pc = "get_as_neighbours"
  /\ \E resp \in Responses(CandUpstreams, {}, TopologyErrors) :
       cand' = NextIx([Heard(cand, resp) EXCEPT !.upstream_asns =
                         IF resp.kind = "ok" THEN resp.value ELSE {}])
  /\ UNCHANGED <<run, ref, lvl, prof, full, ixr, pa, replay, req, mc>>

\* members = await self._peeringdb.get_ix_members(ix_id) for the next IX of
\* the list (a set has no order of its own); except Exception: continue
CandGetIxMembers ==
  /\ cand.pc = "get_ix_members"
  /\ \E ix_id \in cand.todo, resp \in Responses(CandMembers, <<>>, ErrorKinds) :
       LET c == [Heard(cand, resp) EXCEPT
                   !.todo = @ \ {ix_id}, !.scanned = @ + 1, !.ix_id = ix_id,
                   !.answered = @ \cup {<<ix_id, resp.value[i]>> : i \in DOMAIN resp.value}]
       IN cand' = IF resp.kind = "ok"
                  THEN [c EXCEPT !.members = resp.value, !.pc = "get_ix"]
                  ELSE NextIx(c)
  /\ UNCHANGED <<run, ref, lvl, prof, full, ixr, pa, replay, req, mc>>

\* ix = await self._peeringdb.get_ix(ix_id); except Exception: continue
CandGetIx ==
  /\ cand.pc = "get_ix"
  /\ \E resp \in Responses({IxName(cand.ix_id)}, "", ErrorKinds) :
       cand' = IF resp.kind = "ok"
               THEN ScanMembers([cand EXCEPT !.ix_name = resp.value])
               ELSE NextIx([Heard(cand, resp) EXCEPT !.members = <<>>])
  /\ UNCHANGED <<run, ref, lvl, prof, full, ixr, pa, replay, req, mc>>

\* network = await self._peeringdb.get_network_by_asn(member.asn); except
\* PeeringDBNotFoundError: continue goes on with the members, any other error
\* reaches except Exception: continue of the IX loop
CandGetNetwork ==
  /\ cand.pc = "get_network_by_asn"
  /\ \E resp \in Responses(CandNetworks, NoCandNetwork, ErrorKinds) :
       cand' =
         IF resp.kind = "ok"
         THEN IF Lower(resp.value.policy_general) \notin {"open", "selective"}
              THEN ScanMembers(cand)
              ELSE ScanMembers([cand EXCEPT !.candidate_map = Append(@,
                     [asn |-> cand.member,
                      name |-> resp.value.name,
                      peering_policy |-> resp.value.policy_general,
                      common_ix_count |-> 1,
                      common_ixes |-> <<cand.ix_name>>,
                      traffic_ratio |-> resp.value.info_ratio,
                      score |-> 0])])
         ELSE IF resp.kind = "NotFound" THEN ScanMembers(Heard(cand, resp))
         ELSE NextIx([Heard(cand, resp) EXCEPT !.members = <<>>])
  /\ UNCHANGED <<run, ref, lvl, prof, full, ixr, pa, replay, req, mc>>

-----------------------------------------------------------------------------
(* PeeringAnalyzer.recommend_ixes (analysis/peering.py): one step per await. *)
(* ix_upstream_count is a Counter; it is kept as the sequence of its items   *)
(* in insertion order.                                                       *)

\* for upstream_asn in list(upstream_asns)[:20]
UpstreamScanLimit == 20

\* max_recommendations: int = 10
DefaultMaxRecommendations == 10

RecommendationLimits == {0, 1, DefaultMaxRecommendations}

\* netixlan records of the target and of an upstream: their ix_id
CurrentIxLans == {<<>>, <<1>>}
UpstreamIxLans == {<<>>, <<1, 5>>, <<5, 6>>, <<6, 6>>}

IxrUpstreams == {{}, {64510}, {64510, 64511}}

\* InternetExchange records: the fields recommend_ixes reads
Exchanges(ix_id) ==
  {[name |-> IxName(ix_id), country |-> "NL", city |-> "Amsterdam", member_count |-> n] :
     n \in {5, 60, 600}}

NoExchange == [name |-> "", country |-> "", city |-> "", member_count |-> 0]

\* ix_upstream_count[ix_id] += 1
Tally(counter, ix_id) ==
  IF \E i \in DOMAIN counter : counter[i].ix_id = ix_id
  THEN [i \in DOMAIN counter |->
          IF counter[i].ix_id = ix_id THEN [counter[i] EXCEPT !.count = @ + 1]
          ELSE counter[i]]
  ELSE Append(counter, [ix_id |-> ix_id, count |-> 1])

\* for ixlan in upstream_ixlans: if ixlan.ix_id not in current_ix_ids: tally
RECURSIVE TallyAll(_, _, _)
TallyAll(counter, ixlans, current_ix_ids) ==
  IF ixlans = <<>> THEN counter
  ELSE TallyAll(IF Head(ixlans) \in current_ix_ids THEN counter
                ELSE Tally(counter, Head(ixlans)),
                Tail(ixlans), current_ix_ids)

\* Counter.most_common(n): the items by falling count, equal counts in
\* insertion order
RECURSIVE InsertByCount(_, _)
InsertByCount(sorted, item) ==
  IF sorted = <<>> THEN <<item>>
  ELSE IF Head(sorted).count >= item.count
       THEN <<Head(sorted)>> \o InsertByCount(Tail(sorted), item)
       ELSE <<item>> \o sorted

RECURSIVE SortByCount(_)
SortByCount(seq) ==
  IF seq = <<>> THEN <<>>
  ELSE InsertByCount(SortByCount(SubSeq(seq, 1, Len(seq) - 1)), seq[Len(seq)])

MostCommon(counter, n) == Take(SortByCount(counter), n)

\* _score_ix, in units of 1 / (2 * total_upstreams) so that coverage * 5.0 and
\* upstream_count * 0.5 stay whole: 2 * total * score
ScoreIx(ix, upstream_count, total_upstreams) ==
  (IF total_upstreams > 0 THEN 10 * upstream_count ELSE 0)
  + 2 * total_upstreams * (IF ix.member_count > 500 THEN 3
                           ELSE IF ix.member_count > 100 THEN 2
                           ELSE IF ix.member_count > 50 THEN 1
                           ELSE 0)
  + total_upstreams * upstream_count

\* recommend_ixes up to its first await
StartRecommendIxes(max_recommendations) ==
  [pc |-> "get_network_ixlans",
   max_recommendations |-> max_recommendations,
   current_ix_ids |-> {},
   upstream_asns |-> {},
   todo |-> {},
   scanned |-> 0,
   ix_upstream_count |-> <<>>,
   queue |-> <<>>,
   recommendations |-> <<>>,
   returned |-> <<>>,
   failure |-> "",
   considered |-> {},
   presence |-> {}]

\* return recommendations[:max_recommendations]
ReturnRecommendations(x, recommendations) ==
  [x EXCEPT !.returned = Take(recommendations, x.max_recommendations), !.pc = "done"]

\* the head of the loop over most_common(max_recommendations * 2); after it
\* recommendations.sort(key=lambda x: x.score, reverse=True)
NextExchange(x) ==
  IF x.queue = <<>>
  THEN ReturnRecommendations([x EXCEPT !.recommendations = SortByScore(@)],
                             SortByScore(x.recommendations))
  ELSE [x EXCEPT !.pc = "get_ix"]

\* the head of the loop over list(upstream_asns)[:20]
NextUpstream(x) ==
  IF x.todo = {} \/ x.scanned = UpstreamScanLimit
  THEN NextExchange([x EXCEPT !.queue =
                       MostCommon(x.ix_upstream_count, x.max_recommendations * 2)])
  ELSE [x EXCEPT !.pc = "get_upstream_ixlans"]

\* one call of find_peering_candidates or of recommend_ixes
PeeringInit ==
  /\ \/ /\ \E max_candidates \in Limits : cand = StartCandidates(max_candidates)
        /\ ixr = Idle
     \/ /\ cand = Idle
        /\ \E max_recommendations \in RecommendationLimits :
             ixr = StartRecommendIxes(max_recommendations)
  /\ run = Idle
  /\ ref = Idle
  /\ lvl = Idle
  /\ prof = Idle
  /\ full = Idle
  /\ pa = Idle
  /\ replay = Idle
  /\ req = Idle
  /\ mc = Idle

\* current_ixlans = await self._peeringdb.get_network_ixlans(asn); the outer
\* handler is except PeeringDBNotFoundError: pass
IxrGetIxLans ==
  /\ ixr.pc = "get_network_ixlans"
  /\ \E resp \in IxLanResponses(CurrentIxLans) :
       ixr' = IF resp.kind = "ok"
              THEN [ixr EXCEPT !.current_ix_ids = IxIds(resp.value),
                               !.pc = "get_as_neighbours"]
              ELSE IF resp.kind = "NotFound" THEN ReturnRecommendations(ixr, <<>>)
              ELSE [ixr EXCEPT !.pc = "raised", !.failure = resp.kind]
  /\ UNCHANGED <<run, ref, lvl, prof, full, cand, pa, replay, req, mc>>

\* neighbours = await self._ripestat.get_as_neighbours(str(asn)); except Exception: pass
IxrGetNeighbours ==
  /\ ixr.pc = "get_as_neighbours"
  /\ \E resp \in Responses(IxrUpstreams, {}, TopologyErrors) :
       LET upstream_asns == IF resp.kind = "ok" THEN resp.value ELSE {}
       IN ixr' = NextUpstream([ixr EXCEPT !.upstream_asns = upstream_asns,
                                          !.todo = upstream_asns])
  /\ UNCHANGED <<run, ref, lvl, prof, full, cand, pa, replay, req, mc>>

\* upstream_ixlans = await self._peeringdb.get_network_ixlans(upstream_asn) for
\* the next upstream of the list; asyncio.sleep; except Exception: continue.
\* considered and presence keep which upstreams were asked and which
\* <<upstream_asn, ix_id>> connections were answered.
IxrGetUpstreamIxLans ==
  /\ ixr.pc = "get_upstream_ixlans"
  /\ \E upstream_asn \in ixr.todo, resp \in IxLanResponses(UpstreamIxLans) :
       LET x == [ixr EXCEPT !.todo = @ \ {upstream_asn}, !.scanned = @ + 1,
                            !.considered = @ \cup {upstream_asn}]
       IN ixr' = IF resp.kind = "ok"
                 THEN NextUpstream([x EXCEPT
                        !.ix_upstream_count = TallyAll(@, resp.value, x.current_ix_ids),
                        !.presence = @ \cup {<<upstream_asn, resp.value[i]>> :
                                               i \in DOMAIN resp.value}])
                 ELSE NextUpstream(x)
  /\ UNCHANGED <<run, ref, lvl, prof, full, cand, pa, replay, req, mc>>

\* ix = await self._peeringdb.get_ix(ix_id); if ix.member_count < 10: continue;
\* recommendations.append(...); except Exception: continue
IxrGetIx ==
  /\ ixr.pc = "get_ix"
  /\ LET item == Head(ixr.queue)
         x == [ixr EXCEPT !.queue = Tail(@)]
     IN \E resp \in Responses(Exchanges(item.ix_id), NoExchange, ErrorKinds) :
          ixr' = IF resp.kind = "ok" /\ resp.value.member_count >= 10
                 THEN NextExchange([x EXCEPT !.recommendations = Append(@,
                        [ix_id |-> item.ix_id,
                         ix_name |-> resp.value.name,
                         member_count |-> resp.value.member_count,
                         potential_peers |-> item.count,
                         score |-> ScoreIx(resp.value, item.count,
                                           Cardinality(x.upstream_asns))])])
                 ELSE NextExchange(x)
  /\ UNCHANGED <<run, ref, lvl, prof, full, cand, pa, replay, req, mc>>

PeeringNext ==
  \/ CandGetIxLans
  \/ CandGetNeighbours
  \/ CandGetIxMembers
  \/ CandGetIx
  \/ CandGetNetwork
  \/ IxrGetIxLans
  \/ IxrGetNeighbours
  \/ IxrGetUpstreamIxLans
  \/ IxrGetIx

PeeringSpec == PeeringInit /\ [][PeeringNext]_vars

\* C12: find_peering_candidates and recommend_ixes return a list whatever the
\* providers answer: neither call ends in an exception.
C12_DegradeNotAbort == cand.pc # "raised" /\ ixr.pc # "raised"

-----------------------------------------------------------------------------
(* PathAnalyzer (analysis/paths.py): analyze_paths awaits the looking glass  *)
(* once and computes the rest synchronously; detect_anomalies runs its three *)
(* checks under asyncio.gather(return_exceptions=True), each check stepping  *)
(* at its one await.  Python sets and Counter ties have no order the code    *)
(* fixes: which unique paths survive unique_paths[:20] and which ASNs tie    *)
(* into most_common(10) is a choice of the step.  Lists built from a set     *)
(* (unique_paths, origin_asns) and common_transit are kept as sets.          *)

\* unique_paths[:20]
UniquePathLimit == 20

\* asn_counts.most_common(10)
CommonTransitLimit == 10

\* the largest number of distinct paths a looking-glass answer holds here
MaxFan == 21

\* the words of an as_path string: a number, an AS set "{...}", anything else
Asn(n) == [kind |-> "asn", value |-> n]
AsSet == [kind |-> "as_set", value |-> 0]
Word == [kind |-> "other", value |-> 0]

\* an as_path string made of numbers only
Raw(path) == [i \in DOMAIN path |-> Asn(path[i])]

\* _parse_as_path: words starting with "{" are skipped, the others are
\* converted with int() and skipped on ValueError
RECURSIVE ParseAsPath(_)
ParseAsPath(path_str) ==
  IF path_str = <<>> THEN <<>>
  ELSE IF Head(path_str).kind = "asn"
       THEN <<Head(path_str).value>> \o ParseAsPath(Tail(path_str))
       ELSE ParseAsPath(Tail(path_str))

\* the loop over lg_data.rrcs and their peers: all_paths
RECURSIVE AllPaths(_)
AllPaths(peers) ==
  IF peers = <<>> THEN <<>>
  ELSE LET path == ParseAsPath(Head(peers))
       IN IF Head(peers) # <<>> /\ path # <<>>
          THEN <<path>> \o AllPaths(Tail(peers))
          ELSE AllPaths(Tail(peers))

\* _create_as_path: prepend_count counts the positions equal to their predecessor
PrependCount(path) == Cardinality({i \in 2..Len(path) : path[i] = path[i - 1]})

CreateAsPath(path) ==
  [path |-> path,
   length |-> Len(path),
   origin_asn |-> path[Len(path)],
   has_prepending |-> PrependCount(path) > 0,
   prepend_count |-> PrependCount(path)]

\* the subsets of S with k elements
RECURSIVE KSubsets(_, _)
KSubsets(S, k) ==
  IF k = 0 THEN {{}}
  ELSE UNION {{T \cup {x} : T \in KSubsets(S \ {x}, k - 1)} : x \in S}

SetOf(seq) == {seq[i] : i \in DOMAIN seq}

\* set(path[1:-1]) if len(path) > 2 else set()
Transit(path) ==
  IF Len(path) > 2 THEN {path[i] : i \in 2..(Len(path) - 1)} ELSE {}

\* asn_counts after the loop: in how many paths the ASN is a transit ASN
TransitCount(paths, asn) == Cardinality({i \in DOMAIN paths : asn \in Transit(paths[i])})

TransitAsns(paths) == UNION {Transit(paths[i]) : i \in DOMAIN paths}

\* asn_counts.most_common(10): ten keys of highest count, ties in any order
MostCommonTransit(paths) ==
  LET keys == TransitAsns(paths)
      n == Cardinality(keys)
  IN {keys \ out : out \in
        {o \in KSubsets(keys, n - Min(CommonTransitLimit, n)) :
           \A a \in keys \ o, b \in o : TransitCount(paths, a) >= TransitCount(paths, b)}}

\* _find_common_transit without the threshold: all of most_common(10)
FindCommonTransitNoThreshold(paths, top) == top

\* _find_common_transit with the first and last hop counted too
FindCommonTransitWholePath(paths, top) ==
  {asn \in UNION {SetOf(paths[i]) : i \in DOMAIN paths} :
     2 * Cardinality({i \in DOMAIN paths : asn \in SetOf(paths[i])}) >= Len(paths)}

\* _find_common_transit: count >= len(paths) * 0.5 among the most common
FindCommonTransit(paths, top) ==
  {asn \in top : 2 * TransitCount(paths, asn) >= Len(paths)}

\* the unique paths that unique_paths[:20] can leave out
Dropped(paths) ==
  LET unique == SetOf(paths)
      n == Cardinality(unique)
  IN KSubsets(unique, n - Min(UniquePathLimit, n))

\* PathAnalysis(destination=resource); avg_path_length is the pair <<sum, count>>
ZeroAnalysis ==
  [path_count |-> 0, unique_paths |-> {}, avg_path_length |-> <<0, 1>>,
   min_path_length |-> 0, max_path_length |-> 0, common_transit |-> {},
   origin_asns |-> {}]

RECURSIVE SumLengths(_)
SumLengths(S) ==
  IF S = {} THEN 0
  ELSE LET p == CHOOSE x \in S : TRUE IN Len(p) + SumLengths(S \ {p})

\* analyze_paths after the looking glass answered with these peers
Analyze(peers, dropped, top) ==
  LET all_paths == AllPaths(peers)
      unique == SetOf(all_paths)
      lengths == {Len(p) : p \in unique}
  IN IF all_paths = <<>> THEN ZeroAnalysis
     ELSE [path_count |-> Len(all_paths),
           unique_paths |-> {CreateAsPath(p) : p \in unique \ dropped},
           avg_path_length |-> <<SumLengths(unique), Cardinality(unique)>>,
           min_path_length |-> CHOOSE l \in lengths : \A m \in lengths : l <= m,
           max_path_length |-> CHOOSE l \in lengths : \A m \in lengths : l >= m,
           common_transit |-> FindCommonTransit(all_paths, top),
           origin_asns |-> {p[Len(p)] : p \in SetOf(all_paths)}]

\* the analyses analyze_paths can return for a looking-glass answer; a failed
\* call is caught by except Exception: pass and leaves the empty analysis
Analyses(resp) ==
  IF resp.kind # "ok" THEN {ZeroAnalysis}
  ELSE {Analyze(resp.value, dropped, top) :
          dropped \in Dropped(AllPaths(resp.value)),
          top \in MostCommonTransit(AllPaths(resp.value))}

\* looking-glass answers: the as_path strings of the peers of all RRCs
Fan(n) == [i \in 1..n |-> Raw(<<1000 + i, 200, 300>>)]
Prepended == Raw(<<100, 300, 300, 300, 300, 300, 300, 300>>)
LongPath == Raw(<<100>> \o [i \in 1..(CommonTransitLimit + 1) |-> i] \o <<300>>)

LookingGlassPeers ==
  {<<>>,
   <<Raw(<<100, 200, 300>>), Raw(<<100, 200, 300>>), Raw(<<400, 200, 300>>)>>,
   <<Raw(<<100, 200, 300>>), Raw(<<100, 200, 301>>)>>,
   <<Raw(<<300>>), Raw(<<100, 300>>), Raw(<<100, 200, 300>>)>>,
   <<<<>>, <<AsSet>>, <<Asn(100), Word, Asn(300)>>, <<Asn(100), Asn(200), AsSet>>>>,
   <<Prepended, Raw(<<100, 200, 300>>)>>,
   <<LongPath, Raw(<<100, 1, 300>>)>>,
   <<LongPath, Raw(<<100, 200, 300>>), Raw(<<100, 200, 300>>)>>,
   Fan(UniquePathLimit),
   Fan(MaxFan),
   Fan(MaxFan - 1) \o <<Prepended>>}

LookingGlassResponses == Responses(LookingGlassPeers, <<>>, TopologyErrors)

\* analyze_paths as a table over the looking-glass answers
AnalysesOf == [resp \in LookingGlassResponses |-> Analyses(resp)]

\* RPKIValidation.status
RpkiValidationResponses == Responses({"valid", "invalid", "not-found"}, "", TopologyErrors)

Resources == {"192.0.2.0/24", "AS64500", "64500"}

\* resource.upper().startswith("AS") or resource.isdigit()
IsAsResource(resource) == resource \in {"AS64500", "64500"}

Anomaly(type, severity) == [type |-> type, severity |-> severity]

\* _check_moas with the test written len(analysis.origin_asns) != 1
MoasAnomaliesUnlessOneOrigin(analysis) ==
  IF Cardinality(analysis.origin_asns) # 1 THEN <<Anomaly("moas", "high")>> ELSE <<>>

\* _check_moas after analyze_paths
MoasAnomalies(analysis) ==
  IF Cardinality(analysis.origin_asns) > 1 THEN <<Anomaly("moas", "high")>> ELSE <<>>

\* _check_rpki after get_rpki_validation
RpkiAnomalies(resp) ==
  IF resp.kind = "ok" /\ resp.value = "invalid"
  THEN <<Anomaly("rpki_invalid", "critical")>> ELSE <<>>

\* _check_unusual_paths after analyze_paths: the loop over analysis.unique_paths
\* breaks at the first path with prepend_count > 5
UnusualPathAnomalies(analysis) ==
  (IF analysis.max_path_length > 10
   THEN <<Anomaly("unusual_path_length", "medium")>> ELSE <<>>)
  \o (IF \E p \in analysis.unique_paths : p.prepend_count > 5
      THEN <<Anomaly("unusual_path_length", "low")>> ELSE <<>>)

\* detect_anomalies: report.risk_level; default is the value AnomalyReport
\* was constructed with
OverallRiskLevel(anomalies, default) ==
  IF \E i \in DOMAIN anomalies : anomalies[i].severity = "critical" THEN "critical"
  ELSE IF \E i \in DOMAIN anomalies : anomalies[i].severity = "high" THEN "high"
  ELSE IF \E i \in DOMAIN anomalies : anomalies[i].severity = "medium" THEN "medium"
  ELSE default

\* AnomalyReport(resource=resource): risk_level: RiskLevel = RiskLevel.LOW
ZeroAnomalyReport == [anomalies |-> <<>>, risk_level |-> "low"]

NoAnswer == [kind |-> "", value |-> <<>>]

\* analyze_paths(resource) or detect_anomalies(resource) up to the first await;
\* _check_rpki returns at once when the resource is an ASN
StartPaths(op, resource) ==
  [op |-> op,
   pc |-> IF op = "analyze_paths" THEN "get_looking_glass" ELSE "gather",
   resource |-> resource,
   looking_glass |-> NoAnswer,
   analysis |-> ZeroAnalysis,
   moas_pc |-> IF op = "detect_anomalies" THEN "get_looking_glass" ELSE "",
   rpki_pc |-> IF op = "detect_anomalies"
               THEN (IF IsAsResource(resource) THEN "done" ELSE "get_rpki_validation")
               ELSE "",
   path_pc |-> IF op = "detect_anomalies" THEN "get_looking_glass" ELSE "",
   moas_answer |-> NoAnswer,
   rpki_answer |-> [kind |-> "", value |-> ""],
   path_answer |-> NoAnswer,
   moas_result |-> <<>>,
   rpki_result |-> <<>>,
   path_result |-> <<>>,
   report |-> ZeroAnomalyReport]

PathInit ==
  /\ \E op \in {"analyze_paths", "detect_anomalies"}, resource \in Resources :
       pa = StartPaths(op, resource)
  /\ run = Idle
  /\ ref = Idle
  /\ lvl = Idle
  /\ prof = Idle
  /\ full = Idle
  /\ cand = Idle
  /\ ixr = Idle
  /\ replay = Idle
  /\ req = Idle
  /\ mc = Idle

\* analyze_paths: lg_data = await self._ripestat.get_looking_glass(resource)
AnalyzePaths ==
  /\ pa.op = "analyze_paths" /\ pa.pc = "get_looking_glass"
  /\ \E resp \in LookingGlassResponses : \E analysis \in AnalysesOf[resp] :
       pa' = [pa EXCEPT !.looking_glass = resp, !.analysis = analysis, !.pc = "done"]
  /\ UNCHANGED <<run, ref, lvl, prof, full, cand, ixr, replay, req, mc>>

\* _check_moas: analysis = await self.analyze_paths(resource)
CheckMoas ==
  /\ pa.pc = "gather" /\ pa.moas_pc = "get_looking_glass"
  /\ \E resp \in LookingGlassResponses : \E analysis \in AnalysesOf[resp] :
       pa' = [pa EXCEPT !.moas_answer = resp,
                        !.moas_result = MoasAnomalies(analysis),
                        !.moas_pc = "done"]
  /\ UNCHANGED <<run, ref, lvl, prof, full, cand, ixr, replay, req, mc>>

\* _check_rpki: validation = await self._ripestat.get_rpki_validation(resource);
\* except Exception: pass
CheckRpki ==
  /\ pa.pc = "gather" /\ pa.rpki_pc = "get_rpki_validation"
  /\ \E resp \in RpkiValidationResponses :
       pa' = [pa EXCEPT !.rpki_answer = resp,
                        !.rpki_result = RpkiAnomalies(resp),
                        !.rpki_pc = "done"]
  /\ UNCHANGED <<run, ref, lvl, prof, full, cand, ixr, replay, req, mc>>

\* _check_unusual_paths: analysis = await self.analyze_paths(resource)
CheckUnusualPaths ==
  /\ pa.pc = "gather" /\ pa.path_pc = "get_looking_glass"
  /\ \E resp \in LookingGlassResponses : \E analysis \in AnalysesOf[resp] :
       pa' = [pa EXCEPT !.path_answer = resp,
                        !.analysis = analysis,
                        !.path_result = UnusualPathAnomalies(analysis),
                        !.path_pc = "done"]
  /\ UNCHANGED <<run, ref, lvl, prof, full, cand, ixr, replay, req, mc>>

\* the gather returns: the three lists are concatenated and the risk level set
DetectJoin ==
  /\ pa.pc = "gather"
  /\ pa.moas_pc = "done" /\ pa.rpki_pc = "done" /\ pa.path_pc = "done"
  /\ LET anomalies == pa.moas_result \o pa.rpki_result \o pa.path_result
     IN pa' = [pa EXCEPT !.report.anomalies = anomalies,
                         !.report.risk_level =
                            OverallRiskLevel(anomalies, pa.report.risk_level),
                         !.pc = "done"]
  /\ UNCHANGED <<run, ref, lvl, prof, full, cand, ixr, replay, req, mc>>

PathNext ==
  \/ AnalyzePaths
  \/ CheckMoas
  \/ CheckRpki
  \/ CheckUnusualPaths
  \/ DetectJoin

PathSpec == PathInit /\ [][PathNext]_vars

-----------------------------------------------------------------------------
(* Properties of path analysis and anomaly detection.                        *)

\* analyze_paths has returned the analysis of an answered looking glass
Analyzed ==
  pa.op = "analyze_paths" /\ pa.pc = "done" /\ pa.looking_glass.kind = "ok"

\* the raw path strings of the answer that parse to a non-empty sequence
Observed == {i \in DOMAIN pa.looking_glass.value : ParseAsPath(pa.looking_glass.value[i]) # <<>>}

\* the distinct parsed sequences
DistinctPaths == {ParseAsPath(pa.looking_glass.value[i]) : i \in Observed}

\* C13: analyze_paths returns path_count = the number of raw path strings that
\* parse to a non-empty sequence, unique_paths = the distinct parsed sequences,
\* each once and all of them, min/max/average length over the distinct
\* sequences, origin_asns = the last elements of the paths.
C13_PathStatistics ==
  Analyzed =>
    /\ pa.analysis.path_count = Cardinality(Observed)
    /\ {u.path : u \in pa.analysis.unique_paths} = DistinctPaths
    /\ Cardinality(pa.analysis.unique_paths) = Cardinality(DistinctPaths)
    /\ pa.analysis.origin_asns = {p[Len(p)] : p \in DistinctPaths}
    /\ DistinctPaths # {} =>
         /\ \E p \in DistinctPaths : Len(p) = pa.analysis.min_path_length
         /\ \E p \in DistinctPaths : Len(p) = pa.analysis.max_path_length
         /\ \A p \in DistinctPaths :
              pa.analysis.min_path_length <= Len(p) /\ Len(p) <= pa.analysis.max_path_length
         /\ pa.analysis.avg_path_length = <<SumLengths(DistinctPaths), Cardinality(DistinctPaths)>>

\* in how many of the observed raw paths the ASN stands strictly between the
\* first and the last element
Inside(asn) ==
  Cardinality({i \in Observed :
     LET p == ParseAsPath(pa.looking_glass.value[i])
     IN \E k \in 2..(Len(p) - 1) : p[k] = asn})

\* the ASNs occurring anywhere in the observed paths
SeenAsns == UNION {SetOf(p) : p \in DistinctPaths}

\* C14: an AS is in common_transit only if it stands strictly inside at least
\* 50% of the raw paths; an AS seen only as a first or last element is never in
\* it; common_transit holds at most 10 ASes, and an AS left out although it
\* reaches 50% is not more frequent than any AS kept.
C14_CommonTransit ==
  Analyzed =>
    /\ \A asn \in pa.analysis.common_transit :
         asn \in SeenAsns /\ 2 * Inside(asn) >= Cardinality(Observed)
    /\ \A asn \in SeenAsns : Inside(asn) = 0 => asn \notin pa.analysis.common_transit
    /\ Cardinality(pa.analysis.common_transit) <= 10
    /\ \A out \in SeenAsns \ pa.analysis.common_transit :
         (Inside(out) > 0 /\ 2 * Inside(out) >= Cardinality(Observed)) =>
           /\ Cardinality(pa.analysis.common_transit) = 10
           /\ \A in \in pa.analysis.common_transit : Inside(in) >= Inside(out)

\* C14 witness: eleven ASes stand inside at least half of the paths, ten are
\* kept, and the observer hop 100, first element of every path, is not.
C14_Witness ==
  /\ Analyzed
  /\ Cardinality(pa.analysis.common_transit) = 10
  /\ \E out \in SeenAsns \ pa.analysis.common_transit :
       Inside(out) > 0 /\ 2 * Inside(out) >= Cardinality(Observed)
  /\ \A p \in DistinctPaths : p[1] = 100
  /\ 100 \notin pa.analysis.common_transit

\* the looking glass answered with the raw paths [100,200,300], [100,200,300],
\* [400,200,300] and analyze_paths has returned
ExamplePaths ==
  /\ Analyzed
  /\ pa.looking_glass.value =
       <<Raw(<<100, 200, 300>>), Raw(<<100, 200, 300>>), Raw(<<400, 200, 300>>)>>

\* C15 as stated: for the three example paths common_transit includes 200,
\* includes 100 and excludes 400.
C15_ExampleIncludes100 ==
  ExamplePaths =>
    /\ 200 \in pa.analysis.common_transit
    /\ 100 \in pa.analysis.common_transit
    /\ 400 \notin pa.analysis.common_transit

\* C15 amended: for the three example paths common_transit is exactly {200};
\* 100 and 400 are observer hops only and both are excluded.
C15_ExampleOnly200 ==
  ExamplePaths => pa.analysis.common_transit = {200}

\* C15 witness: the example has been analysed: three raw paths, two distinct.
C15_Witness ==
  /\ ExamplePaths
  /\ pa.analysis.path_count = 3
  /\ Cardinality(pa.analysis.unique_paths) = 2

\* detect_anomalies has returned its report
Detected == pa.op = "detect_anomalies" /\ pa.pc = "done"

Severities(report) == {report.anomalies[i].severity : i \in DOMAIN report.anomalies}

\* the highest severity under critical > high > medium > low > none
HighestSeverity(report) ==
  IF "critical" \in Severities(report) THEN "critical"
  ELSE IF "high" \in Severities(report) THEN "high"
  ELSE IF "medium" \in Severities(report) THEN "medium"
  ELSE IF "low" \in Severities(report) THEN "low"
  ELSE "none"

\* C16: the risk level of the report is the highest severity among its
\* anomalies; a report without anomalies carries the level none.
C16_RiskLevelIsHighest ==
  Detected => pa.report.risk_level = HighestSeverity(pa.report)

\* the unusual-path check has run on an answered looking glass
PathChecked == pa.op = "detect_anomalies" /\ pa.path_pc = "done" /\ pa.path_answer.kind = "ok"

PathsSeen == SetOf(AllPaths(pa.path_answer.value))

Emitted(result, severity) ==
  Cardinality({i \in DOMAIN result :
     result[i].type = "unusual_path_length" /\ result[i].severity = severity})

\* C17: the unusual-path check emits one medium anomaly exactly when the
\* longest observed path has more than 10 hops, and exactly one low anomaly
\* exactly when some observed distinct path has a prepend count above 5.
C17_UnusualPaths ==
  PathChecked =>
    /\ Emitted(pa.path_result, "medium") =
         IF \E p \in PathsSeen : Len(p) > 10 THEN 1 ELSE 0
    /\ Emitted(pa.path_result, "low") =
         IF \E p \in PathsSeen : PrependCount(p) > 5 THEN 1 ELSE 0

Reported(type) ==
  Cardinality({i \in DOMAIN pa.report.anomalies : pa.report.anomalies[i].type = type})

\* C18: detect_anomalies returns whatever fails; a check whose provider call
\* failed contributes nothing, the RPKI check contributes nothing for an AS
\* resource, and the report holds exactly what the three checks produced, so a
\* check whose call was answered reports its finding whatever the others did.
C18_ChecksIndependent ==
  /\ pa.op = "detect_anomalies" => pa.pc \in {"gather", "done"}
  /\ Detected =>
       /\ pa.report.anomalies = pa.moas_result \o pa.rpki_result \o pa.path_result
       /\ pa.moas_answer.kind # "ok" => Reported("moas") = 0
       /\ pa.rpki_answer.kind # "ok" => Reported("rpki_invalid") = 0
       /\ IsAsResource(pa.resource) => Reported("rpki_invalid") = 0
       /\ pa.path_answer.kind # "ok" => Reported("unusual_path_length") = 0
       /\ pa.moas_answer.kind = "ok" =>
            Reported("moas") =
              IF Cardinality({p[Len(p)] : p \in SetOf(AllPaths(pa.moas_answer.value))}) > 1
              THEN 1 ELSE 0
       /\ (pa.rpki_answer.kind = "ok" /\ ~IsAsResource(pa.resource)) =>
            Reported("rpki_invalid") = IF pa.rpki_answer.value = "invalid" THEN 1 ELSE 0
       /\ (pa.path_answer.kind = "ok" /\ \E p \in PathsSeen : Len(p) > 10) =>
            Reported("unusual_path_length") >= 1

\* C18 witness: the looking glass failed for the MOAS check and the RPKI call
\* failed, the unusual-path check was answered and its anomaly is the report.
C18_Witness ==
  /\ Detected
  /\ pa.moas_answer.kind = "Transient"
  /\ pa.rpki_answer.kind = "Transient"
  /\ pa.path_answer.kind = "ok"
  /\ Len(pa.report.anomalies) = 1
  /\ pa.report.anomalies[1].type = "unusual_path_length"

-----------------------------------------------------------------------------
(* Properties of peering-candidate discovery.                                *)

\* find_peering_candidates has returned
Returned == cand.pc = "done"

\* C19: the score of a candidate is 2 for an open policy or 1 for a selective
\* one, plus 1 per shared IX, plus 3 if it is an upstream of the target, plus 1
\* for a balanced or mostly inbound traffic ratio; a missing attribute adds 0
\* and never lowers the score, and one more shared IX raises the score by
\* exactly 1.
C19_CandidateScore ==
  Returned =>
    \A i \in DOMAIN cand.candidate_map :
      LET c == cand.candidate_map[i]
          policy == IF c.peering_policy \in {"Open", "open"} THEN 2
                    ELSE IF c.peering_policy \in {"Selective", "selective"} THEN 1
                    ELSE 0
          upstream == IF c.asn \in cand.upstream_asns THEN 3 ELSE 0
          ratio == IF c.traffic_ratio \in {"Balanced", "balanced", "Mostly Inbound",
                                          "mostly inbound"} THEN 1 ELSE 0
      IN /\ c.score = policy + c.common_ix_count + upstream + ratio
         /\ c.score >= c.common_ix_count
         /\ c.traffic_ratio = "" => c.score = policy + c.common_ix_count + upstream
         /\ ScoreCandidate([c EXCEPT !.common_ix_count = @ + 1], cand.upstream_asns)
              = c.score + 1
         /\ ScoreCandidate([c EXCEPT !.traffic_ratio = ""], cand.upstream_asns) <= c.score

\* C19 witness: a returned candidate that is an upstream, shares two IXes and
\* has no traffic ratio on record: selective 1 + 2 IXes + upstream 3 = 6.
C19_Witness ==
  /\ Returned
  /\ \E i \in DOMAIN cand.candidates :
       /\ cand.candidates[i].asn \in cand.upstream_asns
       /\ cand.candidates[i].common_ix_count = 2
       /\ cand.candidates[i].traffic_ratio = ""
       /\ cand.candidates[i].peering_policy = "Selective"
       /\ cand.candidates[i].score = 6

\* C20: find_peering_candidates returns the candidates by non-increasing
\* score, cut to at most max_candidates entries, the best ones; the target is
\* never among them, each has policy open or selective, and the result is
\* empty when the target has no IX connection.
C20_RankedAndTruncated ==
  Returned =>
    /\ \A i, j \in DOMAIN cand.candidates :
         i < j => cand.candidates[i].score >= cand.candidates[j].score
    /\ Len(cand.candidates) = Min(cand.max_candidates, Len(cand.candidate_map))
    /\ \A i \in DOMAIN cand.candidates :
         /\ \E k \in DOMAIN cand.candidate_map : cand.candidate_map[k] = cand.candidates[i]
         /\ cand.candidates[i].asn # TargetASN
         /\ cand.candidates[i].peering_policy \in {"Open", "open", "Selective", "selective"}
    /\ \A k \in DOMAIN cand.candidate_map :
         (\A i \in DOMAIN cand.candidates : cand.candidates[i] # cand.candidate_map[k]) =>
           \A i \in DOMAIN cand.candidates :
             cand.candidates[i].score >= cand.candidate_map[k].score
    /\ cand.target_ix_ids = {} => cand.candidates = <<>>

\* C20 witness: two candidates were found, the one found second scores higher,
\* and a limit of 1 returns it alone.
C20_Witness ==
  /\ Returned
  /\ cand.max_candidates = 1
  /\ Len(cand.candidate_map) = 2
  /\ cand.candidate_map[2].score > cand.candidate_map[1].score
  /\ cand.candidates = <<cand.candidate_map[2]>>

-----------------------------------------------------------------------------
(* Properties of the shared-IX count and of the IX recommendations.          *)

\* the scanned IXes whose answered member list holds the ASN
SharedIxes(asn) == {m[1] : m \in {a \in cand.answered : a[2] = asn}}

\* C21: when no provider call failed, every returned candidate has a shared-IX
\* count equal to the number of distinct scanned IXes whose member list holds
\* its ASN, and common_ixes names exactly those IXes, once each.
C21_SharedIxCount ==
  (Returned /\ ~cand.failed) =>
    \A i \in DOMAIN cand.candidates :
      LET c == cand.candidates[i]
      IN /\ c.common_ix_count = Cardinality(SharedIxes(c.asn))
         /\ Len(c.common_ixes) = Cardinality(SharedIxes(c.asn))
         /\ {c.common_ixes[k] : k \in DOMAIN c.common_ixes}
              = {IxName(ix_id) : ix_id \in SharedIxes(c.asn)}


Recommended == ixr.pc = "done"

\* the considered upstreams that have a connection at the IX
UpstreamsAt(ix_id) == {u \in ixr.considered : <<u, ix_id>> \in ixr.presence}

\* C22: the tally of a recommended IX is the number of distinct considered
\* upstreams (at most 20) with a connection there, only IXes the target has not
\* joined are tallied, the score is 5.0 * (tally / upstreams considered) +
\* size bonus + 0.5 * tally (here times twice the number of upstreams), the
\* tally never exceeds the number of upstreams considered, so the coverage
\* term never exceeds 5.0, and no IX with fewer than 10 members is recommended.
C22_IxTally ==
  Recommended =>
    /\ Cardinality(ixr.considered) <= UpstreamScanLimit
    /\ \A i \in DOMAIN ixr.returned :
         LET r == ixr.returned[i]
             considered == Cardinality(ixr.considered)
         IN /\ r.potential_peers = Cardinality(UpstreamsAt(r.ix_id))
            /\ r.ix_id \notin ixr.current_ix_ids
            /\ r.potential_peers <= considered
            /\ r.score = ScoreIx(r, r.potential_peers, considered)
            /\ 10 * r.potential_peers <= 10 * considered
            /\ r.member_count >= 10

-----------------------------------------------------------------------------
(* The historical replay (collectors/bgpstream.py): investigate_incident      *)
(* collects the update events of the window, keeps the relevant ones and     *)
(* runs detect_anomalies over them.  A step is the arrival of one event      *)
(* from get_updates, the first pass of detect_anomalies, one round of its    *)
(* second loop, its closing origin_change block, or the making of the        *)
(* report.  Timestamps are seconds since the start of the window.  A prefix  *)
(* "n.h/len" is kept as its /24 network n, its last octet h and its length.  *)

MaxEvents == 3
ExampleLength == 100
SecondsPerMinute == 60

Prefix(net, host, len) == [net |-> net, host |-> host, len |-> len]

TargetPrefix == Prefix("1.1.1", 0, 24)

\* BGPEvent; origin = as_path[-1] if as_path else None
BGPEvent(event_type, prefix, as_path) ==
  [timestamp |-> 0, event_type |-> event_type, prefix |-> prefix, as_path |-> as_path,
   origin_asn |-> IF as_path = <<>> THEN NoASN ELSE as_path[Len(as_path)]]

\* the events a collector yields: a withdrawal (no AS path), an announcement
\* whose path does not parse, paths of the expected origin 13335 of length 2,
\* 3 and 4 between the same endpoints, a path through 13335 originated by
\* 267613, a more specific announced by 267613, a more specific of the
\* expected origin in the other half of the network, another network
ReplayEvents ==
  {BGPEvent("W", TargetPrefix, <<>>),
   BGPEvent("A", TargetPrefix, <<>>),
   BGPEvent("A", TargetPrefix, <<174, 13335>>),
   BGPEvent("A", TargetPrefix, <<174, 3356, 13335>>),
   BGPEvent("A", TargetPrefix, <<174, 3356, 1299, 13335>>),
   BGPEvent("A", TargetPrefix, <<174, 13335, 267613>>),
   BGPEvent("A", Prefix("1.1.1", 0, 25), <<174, 267613>>),
   BGPEvent("A", Prefix("1.1.1", 128, 25), <<174, 13335>>),
   BGPEvent("A", Prefix("8.8.8", 0, 24), <<174, 15169>>)}

\* the window of the example: announcements with the sole origin 13335
ExampleEvents ==
  [k \in 1..ExampleLength |->
     [BGPEvent("A", TargetPrefix, <<174, 13335>>) EXCEPT !.timestamp = k]]

\* str.startswith on the decimal digits of the last octet
DigitsStartWith(h, g) ==
  h = g \/ (h >= 10 /\ h \div 10 = g) \/ (h >= 100 /\ h \div 100 = g)

\* e.prefix.startswith(prefix_network) or e.prefix == prefix
Relevant(e, prefix) == e.prefix.net = prefix.net \/ e.prefix = prefix

\* actual_len > expected_len and prefix.startswith(expected_prefix.split("/")[0])
MoreSpecific(prefix, expected_prefix) ==
  /\ prefix.len > expected_prefix.len
  /\ prefix.net = expected_prefix.net
  /\ DigitsStartWith(prefix.host, expected_prefix.host)

RECURSIVE SelectRelevant(_, _)
SelectRelevant(events, prefix) ==
  IF events = <<>> THEN <<>>
  ELSE (IF Relevant(Head(events), prefix) THEN <<Head(events)>> ELSE <<>>)
       \o SelectRelevant(Tail(events), prefix)

\* first pass: the announced paths of length <= 3
BaselinePaths(events) ==
  {events[i].as_path : i \in {j \in DOMAIN events :
      /\ events[j].event_type = "A"
      /\ events[j].as_path # <<>>
      /\ Len(events[j].as_path) <= 3}}

\* AnomalyDetection of the event at place `event` of the relevant events
\* (0: of no single event); suspicious_as and leaker are its evidence
AnomalyDetection(anomaly_type, timestamp, prefix, as_path, severity, asn, event) ==
  [anomaly_type |-> anomaly_type, timestamp |-> timestamp, prefix |-> prefix,
   as_path |-> as_path, severity |-> severity, asn |-> asn, event |-> event]

MoreSpecificAnomalies(e, i, expected_prefix) ==
  IF MoreSpecific(e.prefix, expected_prefix)
  THEN <<AnomalyDetection("more_specific", e.timestamp, e.prefix, e.as_path,
                          "critical", NoASN, i)>>
  ELSE <<>>

OriginAnomaliesAlwaysHijack(e, i, expected_origin) ==
  IF expected_origin # NoASN /\ e.origin_asn # NoASN /\ e.origin_asn # expected_origin
  THEN <<AnomalyDetection("hijack", e.timestamp, e.prefix, e.as_path,
                          "critical", NoASN, i)>>
  ELSE <<>>

\* if expected_origin and origin and origin != expected_origin: leak or hijack
OriginAnomalies(e, i, expected_origin) ==
  IF expected_origin # NoASN /\ e.origin_asn # NoASN /\ e.origin_asn # expected_origin
  THEN IF expected_origin \in SetOf(e.as_path)
       THEN <<AnomalyDetection("leak", e.timestamp, e.prefix, e.as_path,
                               "high", e.origin_asn, i)>>
       ELSE <<AnomalyDetection("hijack", e.timestamp, e.prefix, e.as_path,
                               "critical", NoASN, i)>>
  ELSE <<>>

\* set(event.as_path[1:-1])
IntermediateAses(as_path) == {as_path[k] : k \in 2..(Len(as_path) - 1)}

\* the ASes the path-based detection newly flags for the event: the first
\* baseline of at most 2 hops with the path's endpoints decides, then break
PathLeakAses(e, expected_origin, baseline_paths, suspicious_ases_seen) ==
  IF /\ expected_origin # NoASN
     /\ e.origin_asn = expected_origin
     /\ Len(e.as_path) > 2
     /\ \E baseline \in baseline_paths :
          /\ Len(baseline) <= 2
          /\ e.as_path[1] = baseline[1]
          /\ e.as_path[Len(e.as_path)] = baseline[Len(baseline)]
  THEN IntermediateAses(e.as_path) \ suspicious_ases_seen
  ELSE {}

\* the orders in which a set can be iterated
Orders(S) ==
  {order \in [1..Cardinality(S) -> S] : \A a \in S : \E k \in DOMAIN order : order[k] = a}

PathLeakAnomalies(e, i, order) ==
  [k \in DOMAIN order |->
     AnomalyDetection("path_leak", e.timestamp, e.prefix, e.as_path, "high", order[k], i)]

\* one AnomalyDetection per unexpected origin, stamped events[0].timestamp
RECURSIVE Repeat(_, _)
Repeat(x, n) == IF n = 0 THEN <<>> ELSE <<x>> \o Repeat(x, n - 1)

OriginChangeAnomalies(events, seen_origins, expected_origin, expected_prefix) ==
  IF Cardinality(seen_origins) > 1 /\ expected_origin # NoASN
  THEN Repeat(AnomalyDetection("origin_change", events[1].timestamp, expected_prefix,
                               <<>>, "high", NoASN, 0),
              Cardinality(seen_origins \ {expected_origin}))
  ELSE <<>>

\* timestamp.replace(second=0, microsecond=0)
Minute(timestamp) == timestamp - (timestamp % SecondsPerMinute)

Timeline(events, anomalies) ==
  [minute \in {Minute(events[k].timestamp) : k \in DOMAIN events} |->
     [announcements |-> Cardinality({k \in DOMAIN events :
          Minute(events[k].timestamp) = minute /\ events[k].event_type = "A"}),
      withdrawals |-> Cardinality({k \in DOMAIN events :
          Minute(events[k].timestamp) = minute /\ events[k].event_type # "A"}),
      anomalies |-> Cardinality({k \in DOMAIN anomalies :
          Minute(anomalies[k].timestamp) = minute})]]

\* the ASes of every anomaly's as_path and leaker evidence but expected_origin
InvolvedAses(anomalies, expected_origin) ==
  (UNION {SetOf(anomalies[k].as_path) : k \in DOMAIN anomalies}) \ {expected_origin}

\* anomalies[0].timestamp if anomalies else None: <<>> stands for None
FirstAnomalyEarliest(anomalies) ==
  IF anomalies = <<>> THEN <<>>
  ELSE <<CHOOSE t \in {anomalies[k].timestamp : k \in DOMAIN anomalies} :
           \A k \in DOMAIN anomalies : t <= anomalies[k].timestamp>>

FirstAnomaly(anomalies) ==
  IF anomalies = <<>> THEN <<>> ELSE <<anomalies[1].timestamp>>

NoReport ==
  [total_events |-> 0, announcements |-> 0, withdrawals |-> 0, anomalies |-> <<>>,
   involved_ases |-> {}, timeline |-> <<>>, first_anomaly |-> <<>>]

\* investigate_incident(prefix, expected_origin, ...) before get_updates answers
StartReplay(events, limit) ==
  [pc |-> "get_updates", prefix |-> TargetPrefix, expected_origin |-> 13335,
   events |-> events, limit |-> limit, relevant_events |-> <<>>, i |-> 0,
   anomalies |-> <<>>, seen_origins |-> {}, baseline_paths |-> {},
   suspicious_ases_seen |-> {}, report |-> NoReport]

ReplayInit ==
  /\ \/ replay = StartReplay(<<>>, MaxEvents)
     \/ replay = StartReplay(ExampleEvents, ExampleLength + 1)
  /\ run = Idle
  /\ ref = Idle
  /\ lvl = Idle
  /\ prof = Idle
  /\ full = Idle
  /\ cand = Idle
  /\ ixr = Idle
  /\ pa = Idle
  /\ req = Idle
  /\ mc = Idle

\* get_updates yields the next event of the window, in timestamp order
Receive ==
  /\ replay.pc = "get_updates"
  /\ Len(replay.events) < replay.limit
  /\ \E e \in ReplayEvents, wait \in {0, SecondsPerMinute \div 2} :
       LET last == IF replay.events = <<>> THEN 0
                   ELSE replay.events[Len(replay.events)].timestamp
       IN replay' = [replay EXCEPT !.events = Append(@, [e EXCEPT !.timestamp = last + wait])]
  /\ UNCHANGED <<run, ref, lvl, prof, full, cand, ixr, pa, req, mc>>

\* events = list(get_updates(...)); relevant_events = [...]; detect_anomalies
\* up to the end of its first pass
Investigate ==
  /\ replay.pc = "get_updates"
  /\ LET relevant_events == SelectRelevant(replay.events, replay.prefix)
     IN replay' = [replay EXCEPT !.pc = "detect",
                                 !.relevant_events = relevant_events,
                                 !.baseline_paths = BaselinePaths(relevant_events),
                                 !.i = 1]
  /\ UNCHANGED <<run, ref, lvl, prof, full, cand, ixr, pa, req, mc>>

\* one round of the second loop of detect_anomalies (seen_paths, which is
\* written and never read, is left out)
DetectEvent ==
  /\ replay.pc = "detect"
  /\ replay.i <= Len(replay.relevant_events)
  /\ LET e == replay.relevant_events[replay.i]
         flagged == PathLeakAses(e, replay.expected_origin, replay.baseline_paths,
                                 replay.suspicious_ases_seen)
     IN IF e.event_type # "A"
        THEN replay' = [replay EXCEPT !.i = @ + 1]
        ELSE \E order \in Orders(flagged) :
               replay' = [replay EXCEPT
                 !.i = @ + 1,
                 !.anomalies = @ \o MoreSpecificAnomalies(e, replay.i, replay.prefix)
                                 \o OriginAnomalies(e, replay.i, replay.expected_origin)
                                 \o PathLeakAnomalies(e, replay.i, order),
                 !.suspicious_ases_seen = @ \cup flagged,
                 !.seen_origins = IF e.origin_asn # NoASN THEN @ \cup {e.origin_asn} ELSE @]
  /\ UNCHANGED <<run, ref, lvl, prof, full, cand, ixr, pa, req, mc>>

\* the end of detect_anomalies: multiple origins for the same prefix
OriginChange ==
  /\ replay.pc = "detect"
  /\ replay.i > Len(replay.relevant_events)
  /\ replay' = [replay EXCEPT
       !.pc = "report",
       !.anomalies = @ \o OriginChangeAnomalies(replay.relevant_events, replay.seen_origins,
                                                replay.expected_origin, replay.prefix)]
  /\ UNCHANGED <<run, ref, lvl, prof, full, cand, ixr, pa, req, mc>>

\* the rest of investigate_incident: timeline, involved ASes, the report
Report ==
  /\ replay.pc = "report"
  /\ replay' = [replay EXCEPT
       !.pc = "done",
       !.report = [total_events |-> Len(replay.relevant_events),
                   announcements |-> Cardinality({k \in DOMAIN replay.relevant_events :
                                       replay.relevant_events[k].event_type = "A"}),
                   withdrawals |-> Cardinality({k \in DOMAIN replay.relevant_events :
                                     replay.relevant_events[k].event_type = "W"}),
                   anomalies |-> replay.anomalies,
                   involved_ases |-> InvolvedAses(replay.anomalies, replay.expected_origin),
                   timeline |-> Timeline(replay.relevant_events, replay.anomalies),
                   first_anomaly |-> FirstAnomaly(replay.anomalies)]]
  /\ UNCHANGED <<run, ref, lvl, prof, full, cand, ixr, pa, req, mc>>

ReplayNext == Receive \/ Investigate \/ DetectEvent \/ OriginChange \/ Report

ReplaySpec == ReplayInit /\ [][ReplayNext]_vars


-----------------------------------------------------------------------------
(* Properties of the historical replay.                                      *)

\* detect_anomalies has gone through every relevant event
Replayed == replay.pc \in {"report", "done"}

\* the places of the leak and hijack anomalies the event at place i yielded
OriginMismatches(i) ==
  {k \in DOMAIN replay.anomalies :
     /\ replay.anomalies[k].event = i
     /\ replay.anomalies[k].anomaly_type \in {"leak", "hijack"}}

\* C23: every announcement with a non-empty AS path whose origin differs from
\* the expected origin yields exactly one origin-mismatch anomaly, a leak at
\* severity high if the expected origin is in its path and a hijack at
\* severity critical otherwise; an announcement of the expected origin and a
\* withdrawal yield none.  After the 100 announcements of the sole origin
\* 13335, an event originated by 267613 with 13335 in its path is a leak.
C23_OriginMismatch ==
  Replayed =>
    \A i \in DOMAIN replay.relevant_events :
      LET e == replay.relevant_events[i]
      IN /\ (e.event_type = "A" /\ e.as_path # <<>>
              /\ e.as_path[Len(e.as_path)] # replay.expected_origin) =>
               /\ Cardinality(OriginMismatches(i)) = 1
               /\ \A k \in OriginMismatches(i) :
                    LET a == replay.anomalies[k]
                    IN IF \E h \in DOMAIN e.as_path : e.as_path[h] = replay.expected_origin
                       THEN a.anomaly_type = "leak" /\ a.severity = "high"
                       ELSE a.anomaly_type = "hijack" /\ a.severity = "critical"
         /\ (e.event_type = "A" /\ e.as_path # <<>>
              /\ e.as_path[Len(e.as_path)] = replay.expected_origin) =>
               OriginMismatches(i) = {}
         /\ e.event_type = "W" => OriginMismatches(i) = {}

\* the example of C23 has been replayed: 100 announcements of 13335, then one
\* of 267613 through 13335, classified leak
C23_Witness ==
  /\ replay.pc = "done"
  /\ Len(replay.relevant_events) = ExampleLength + 1
  /\ replay.relevant_events[ExampleLength + 1].as_path = <<174, 13335, 267613>>
  /\ \E k \in DOMAIN replay.report.anomalies :
       /\ replay.report.anomalies[k].event = ExampleLength + 1
       /\ replay.report.anomalies[k].anomaly_type = "leak"

\* the ASes reported as path_leak
PathLeaks ==
  {k \in DOMAIN replay.anomalies : replay.anomalies[k].anomaly_type = "path_leak"}

\* the baseline paths as the first pass collects them
Baselines == BaselinePaths(replay.relevant_events)

\* C24: for every announcement of the expected origin whose path is longer
\* than some baseline path (an announced path of length <= 3) with the same
\* first and last AS, every AS strictly between its first and last element is
\* reported as path_leak at severity high, and each AS at most once in the run.
C24_PathInjection ==
  Replayed =>
    /\ \A i \in DOMAIN replay.relevant_events :
         LET e == replay.relevant_events[i]
         IN (/\ e.event_type = "A"
             /\ e.as_path # <<>>
             /\ e.origin_asn = replay.expected_origin
             /\ \E b \in Baselines :
                  /\ Len(e.as_path) > Len(b)
                  /\ e.as_path[1] = b[1]
                  /\ e.as_path[Len(e.as_path)] = b[Len(b)]) =>
              \A asn \in IntermediateAses(e.as_path) :
                \E k \in PathLeaks : /\ replay.anomalies[k].asn = asn
                                      /\ replay.anomalies[k].severity = "high"
    /\ \A k, l \in PathLeaks : replay.anomalies[k].asn = replay.anomalies[l].asn => k = l

\* C25: the events being in timestamp order, first_anomaly of the report is
\* the earliest timestamp among all the anomalies of the report, origin_change
\* anomalies included, and it is null exactly when there is no anomaly.
C25_FirstAnomaly ==
  replay.pc = "done" =>
    /\ replay.report.first_anomaly = FirstAnomalyEarliest(replay.report.anomalies)
    /\ replay.report.first_anomaly = <<>> <=> replay.report.anomalies = <<>>

\* C30: an announcement whose AS path is itself a baseline path (of length
\* <= 3, announced in the window) never causes a path_leak anomaly.
C30_BaselineNeverLeaks ==
  Replayed =>
    \A k \in PathLeaks : replay.anomalies[k].as_path \notin Baselines


-----------------------------------------------------------------------------
(* The response cache (cache/store.py, MemoryCache).  time.time() is a       *)
(* clock of whole seconds that advances between the calls.  An optional      *)
(* value is a sequence: <<>> for None, <<x>> for x.  `written` keeps, per    *)
(* key, the last set since the key was deleted or cleared; `last` is the     *)
(* latest call with its time, its result and the store it found.             *)

MaxTime == 4

Keys == {"a", "b"}
Values == {"v", "w"}
Ttls == {<<>>, <<0>>, <<1>>, <<2>>}

None == <<>>
Some(x) == <<x>>

\* self._store = {}
StartCache ==
  [pc |-> "ready", now |-> 0, store |-> [key \in Keys |-> None],
   written |-> [key \in Keys |-> None],
   last |-> [op |-> "init", key |-> "", at |-> 0, result |-> None, removed |-> 0,
             before |-> [key \in Keys |-> None]]]

CacheInit ==
  /\ mc = StartCache
  /\ run = Idle
  /\ ref = Idle
  /\ lvl = Idle
  /\ prof = Idle
  /\ full = Idle
  /\ cand = Idle
  /\ ixr = Idle
  /\ pa = Idle
  /\ replay = Idle
  /\ req = Idle

Called(op, key, result, removed) ==
  [op |-> op, key |-> key, at |-> mc.now, result |-> result, removed |-> removed,
   before |-> mc.store]

\* expires_at is not None and now > expires_at
Expired(entry, now) == entry.expires_at # None /\ now > entry.expires_at[1]

\* a second passes
Tick ==
  /\ mc.pc = "ready"
  /\ mc.now < MaxTime
  /\ mc' = [mc EXCEPT !.now = @ + 1]
  /\ UNCHANGED <<run, ref, lvl, prof, full, cand, ixr, pa, replay, req>>

\* MemoryCache.get
CacheGet ==
  /\ mc.pc = "ready"
  /\ \E key \in Keys :
       mc' = IF mc.store[key] = None
             THEN [mc EXCEPT !.last = Called("get", key, None, 0)]
             ELSE IF Expired(mc.store[key][1], mc.now)
             THEN [mc EXCEPT !.store[key] = None,
                             !.last = Called("get", key, None, 0)]
             ELSE [mc EXCEPT !.last = Called("get", key, Some(mc.store[key][1].value), 0)]
  /\ UNCHANGED <<run, ref, lvl, prof, full, cand, ixr, pa, replay, req>>

\* MemoryCache.set: expires_at = time.time() + ttl if ttl else None
CacheSet ==
  /\ mc.pc = "ready"
  /\ \E key \in Keys, value \in Values, ttl \in Ttls :
       LET expires_at == IF ttl # None /\ ttl[1] # 0 THEN Some(mc.now + ttl[1]) ELSE None
       IN mc' = [mc EXCEPT
            !.store[key] = Some([value |-> value, expires_at |-> expires_at]),
            !.written[key] = Some([value |-> value, at |-> mc.now, ttl |-> ttl]),
            !.last = Called("set", key, None, 0)]
  /\ UNCHANGED <<run, ref, lvl, prof, full, cand, ixr, pa, replay, req>>

\* MemoryCache.delete
CacheDelete ==
  /\ mc.pc = "ready"
  /\ \E key \in Keys :
       mc' = [mc EXCEPT !.store[key] = None, !.written[key] = None,
                        !.last = Called("delete", key, None, 0)]
  /\ UNCHANGED <<run, ref, lvl, prof, full, cand, ixr, pa, replay, req>>

\* MemoryCache.clear
CacheClear ==
  /\ mc.pc = "ready"
  /\ mc' = [mc EXCEPT !.store = [key \in Keys |-> None],
                      !.written = [key \in Keys |-> None],
                      !.last = Called("clear", "", None, 0)]
  /\ UNCHANGED <<run, ref, lvl, prof, full, cand, ixr, pa, replay, req>>

\* MemoryCache.cleanup_expired
CleanupExpired ==
  /\ mc.pc = "ready"
  /\ LET expired == {key \in Keys : mc.store[key] # None /\ Expired(mc.store[key][1], mc.now)}
     IN mc' = [mc EXCEPT
          !.store = [key \in Keys |-> IF key \in expired THEN None ELSE mc.store[key]],
          !.last = Called("cleanup_expired", "", None, Cardinality(expired))]
  /\ UNCHANGED <<run, ref, lvl, prof, full, cand, ixr, pa, replay, req>>

CacheNext == Tick \/ CacheGet \/ CacheSet \/ CacheDelete \/ CacheClear \/ CleanupExpired

CacheSpec == CacheInit /\ [][CacheNext]_vars

\* the keys of a store whose expiry has passed at the time `now`
Passed(store, now) ==
  {key \in Keys : /\ store[key] # None
                  /\ store[key][1].expires_at # None
                  /\ now > store[key][1].expires_at[1]}

\* get(key) after set(key, value, ttl) at time t with an integer ttl and no
\* later set, delete or clear of the key: value up to t + ttl, None after it,
\* and the entry is gone after that read
GetRespectsTtl ==
  (mc.last.op = "get" /\ mc.written[mc.last.key] # None
     /\ mc.written[mc.last.key][1].ttl # None) =>
    LET w == mc.written[mc.last.key][1]
    IN IF mc.last.at <= w.at + w.ttl[1]
       THEN mc.last.result = Some(w.value)
       ELSE mc.last.result = None /\ mc.store[mc.last.key] = None

\* cleanup_expired removes exactly the entries whose expiry has passed and
\* returns their number
CleanupExact ==
  mc.last.op = "cleanup_expired" =>
    /\ mc.store = [key \in Keys |->
                     IF key \in Passed(mc.last.before, mc.last.at) THEN None
                     ELSE mc.last.before[key]]
    /\ mc.last.removed = Cardinality(Passed(mc.last.before, mc.last.at))

\* C27: MemoryCache never serves an expired entry: after set(key, value, ttl)
\* at time t with an integer ttl >= 0 and no later set, delete or clear of the
\* key, get(key) returns value at every time <= t + ttl and None at every time
\* > t + ttl, removing the entry on that read; cleanup_expired removes exactly
\* the entries whose expiry has passed and returns their number.
C27_NeverServesExpired == GetRespectsTtl /\ CleanupExact


-----------------------------------------------------------------------------
(* The provider clients' _request (collectors/ripestat.py, peeringdb.py,     *)
(* atlas.py): the cache lookup, then up to max_retries HTTP attempts with a  *)
(* sleep of 2 ** attempt seconds between two of them.  A step is the cache   *)
(* lookup, one HTTP attempt with the handling of its answer, or one sleep.   *)
(* `history` keeps the answer of every attempt, `waits` the sleeps.          *)

MaxRetries == 4

Clients == {"ripestat", "peeringdb", "atlas"}

\* what self._client.get does: a response with a status code (for RIPEstat
\* its data_call_status read as is_success), or httpx.RequestError
HttpAnswers ==
  {[kind |-> "response", status |-> 200, is_success |-> TRUE],
   [kind |-> "response", status |-> 200, is_success |-> FALSE],
   [kind |-> "response", status |-> 404, is_success |-> TRUE],
   [kind |-> "response", status |-> 429, is_success |-> TRUE],
   [kind |-> "response", status |-> 503, is_success |-> TRUE],
   [kind |-> "RequestError", status |-> 0, is_success |-> TRUE]}

\* the error taxonomy of an answer: HTTP 429 is RateLimited, HTTP 5xx and a
\* network error are Transient
Taxonomy(answer) ==
  IF answer.kind = "RequestError" THEN "Transient"
  ELSE IF answer.status = 429 THEN "RateLimited"
  ELSE IF answer.status >= 500 THEN "Transient"
  ELSE IF answer.status = 404 THEN "NotFound"
  ELSE IF answer.status \in {401, 403} THEN "AuthRequired"
  ELSE "ok"

\* the body of the try of RIPEstatClient._request and its except clauses:
\* "return", "retry" (last_error = e), or the exception that leaves _request
RipestatOutcome(answer) ==
  IF answer.kind = "RequestError" THEN "retry"
  ELSE IF answer.status = 429 THEN "RIPEstatRateLimitError"
  ELSE IF answer.status >= 400 THEN "retry"
  ELSE IF ~answer.is_success THEN "RIPEstatError"
  ELSE "return"

\* the same of PeeringDBClient._request
PeeringDBOutcome(answer) ==
  IF answer.kind = "RequestError" THEN "retry"
  ELSE IF answer.status \in {401, 403} THEN "PeeringDBAuthError"
  ELSE IF answer.status = 404 THEN "PeeringDBNotFoundError"
  ELSE IF answer.status = 429 THEN "PeeringDBRateLimitError"
  ELSE IF answer.status >= 400 THEN "retry"
  ELSE "return"

\* the same of AtlasClient._request
AtlasOutcome(answer) ==
  IF answer.kind = "RequestError" THEN "retry"
  ELSE IF answer.status \in {401, 403} THEN "AtlasAuthError"
  ELSE IF answer.status = 404 THEN "AtlasNotFoundError"
  ELSE IF answer.status = 429 THEN "AtlasRateLimitError"
  ELSE IF answer.status >= 400 THEN "retry"
  ELSE "return"

Outcome(client, answer) ==
  IF client = "ripestat" THEN RipestatOutcome(answer)
  ELSE IF client = "peeringdb" THEN PeeringDBOutcome(answer)
  ELSE AtlasOutcome(answer)

\* raise ...Error(f"Request failed after {self.max_retries} attempts: ...")
RequestFailed(client) ==
  IF client = "ripestat" THEN "RIPEstatError"
  ELSE IF client = "peeringdb" THEN "PeeringDBError"
  ELSE "AtlasError"

\* _request of a client with max_retries, before the cache lookup
StartRequest(client, max_retries) ==
  [pc |-> "cache_get", client |-> client, max_retries |-> max_retries, attempt |-> 0,
   history |-> <<>>, waits |-> <<>>, from_cache |-> FALSE, stored |-> FALSE,
   error |-> ""]

RequestInit ==
  /\ \E client \in Clients, max_retries \in 0..MaxRetries :
       req = StartRequest(client, max_retries)
  /\ run = Idle
  /\ ref = Idle
  /\ lvl = Idle
  /\ prof = Idle
  /\ full = Idle
  /\ cand = Idle
  /\ ixr = Idle
  /\ pa = Idle
  /\ replay = Idle
  /\ mc = Idle

\* for attempt in range(self.max_retries): the next attempt, or the raise
\* after the loop
NextAttempt(r, attempt) ==
  IF attempt < r.max_retries
  THEN [r EXCEPT !.pc = "http_get", !.attempt = attempt]
  ELSE [r EXCEPT !.pc = "raised", !.error = RequestFailed(r.client)]

\* cached = await self.cache.get(cache_key); if cached is not None: return
RequestCacheGet ==
  /\ req.pc = "cache_get"
  /\ \E hit \in BOOLEAN :
       req' = IF hit THEN [req EXCEPT !.pc = "returned", !.from_cache = TRUE]
              ELSE NextAttempt(req, 0)
  /\ UNCHANGED <<run, ref, lvl, prof, full, cand, ixr, pa, replay, mc>>

\* response = await self._client.get(url, params=params) and what follows it
\* up to the return, the raise or the sleep
HttpGet ==
  /\ req.pc = "http_get"
  /\ \E answer \in HttpAnswers :
       LET r == [req EXCEPT !.history = Append(@, answer)]
           outcome == Outcome(req.client, answer)
       IN req' = IF outcome = "return"
                 THEN [r EXCEPT !.pc = "returned", !.stored = TRUE]
                 ELSE IF outcome = "retry"
                 THEN IF req.attempt < req.max_retries - 1
                      THEN [r EXCEPT !.pc = "sleep"]
                      ELSE NextAttempt(r, req.attempt + 1)
                 ELSE [r EXCEPT !.pc = "raised", !.error = outcome]
  /\ UNCHANGED <<run, ref, lvl, prof, full, cand, ixr, pa, replay, mc>>

\* await asyncio.sleep(2 ** attempt)
Sleep ==
  /\ req.pc = "sleep"
  /\ req' = NextAttempt([req EXCEPT !.waits = Append(@, 2 ^ req.attempt)], req.attempt + 1)
  /\ UNCHANGED <<run, ref, lvl, prof, full, cand, ixr, pa, replay, mc>>

RequestNext == RequestCacheGet \/ HttpGet \/ Sleep

RequestSpec == RequestInit /\ [][RequestNext]_vars

\* _request has returned or raised
Answered == req.pc \in {"returned", "raised"}

\* the attempts (counted from 0) that failed RateLimited or Transient
Retryable(k) == Taxonomy(req.history[k + 1]) \in {"RateLimited", "Transient"}

\* C26: in each client's _request a RateLimited (HTTP 429) or Transient (HTTP
\* 5xx, network error) failure on attempt k is retried after a wait of 2^k
\* seconds while k < max_retries - 1; the request makes at most max_retries
\* HTTP attempts, returns on the first successful attempt, and raises the
\* provider error only after the last attempt has failed.
C26_BoundedRetry ==
  /\ Len(req.history) <= req.max_retries
  /\ Answered =>
       /\ \A k \in 0..(Len(req.history) - 1) :
            (Retryable(k) /\ k < req.max_retries - 1) =>
              /\ Len(req.history) > k + 1
              /\ Len(req.waits) > k
              /\ req.waits[k + 1] = 2 ^ k
       /\ (req.pc = "returned" /\ ~req.from_cache) =>
            /\ Taxonomy(req.history[Len(req.history)]) = "ok"
            /\ \A k \in 0..(Len(req.history) - 2) : Taxonomy(req.history[k + 1]) # "ok"
       /\ (req.pc = "raised" /\ req.history # <<>>
             /\ Retryable(Len(req.history) - 1)) =>
            Len(req.history) = req.max_retries


-----------------------------------------------------------------------------
(* The floor of the total and the monotony of the stability score.           *)

\* C28: whatever the providers answer and whatever the lookback, the total of
\* a finished assessment is at least 40 (maturity + policy >= 5, stability
\* >= 5, incident history >= 25, security >= 5), so the risk level is never
\* HIGH and the recommendation never NOT RECOMMENDED.
C28_TotalAtLeast40 ==
  Finished(run) =>
    /\ ScoreOf(run, "maturity") + ScoreOf(run, "policy") >= 5
    /\ ScoreOf(run, "stability") >= 5
    /\ ScoreOf(run, "incident_history") >= 25
    /\ ScoreOf(run, "security") >= 5
    /\ run.risk_data.total_score >= 40
    /\ run.risk_data.risk_level # "HIGH"
    /\ run.risk_data.recommendation # "NOT RECOMMENDED"

\* C28 witness: an assessment at the floor, every category at its minimum.
C28_Witness ==
  /\ Finished(run)
  /\ ScoreOf(run, "maturity") + ScoreOf(run, "policy") = 5
  /\ ScoreOf(run, "stability") = 5
  /\ ScoreOf(run, "incident_history") = 25
  /\ ScoreOf(run, "security") = 5
  /\ run.risk_data.total_score = 40
  /\ run.risk_data.risk_level = "ELEVATED"

\* the assessment has scored the fetched BGP updates
UpdatesScored(r) ==
  /\ Finished(r)
  /\ r.failures \cap {"get_bgp_updates", "get_announced_prefixes"} = {}

\* C29: for a fixed lookback the stability score does not rise with the
\* number of BGP updates: no target with fewer updates over the same period
\* scores less than the assessed one, across the tiers at 10, 50 and 100
\* updates per day in particular.
C29_StabilityMonotone ==
  UpdatesScored(run) =>
    \A fewer \in UpdateCounts(run.days) :
      fewer < run.update_count =>
        Max(0, 30 - StabilityPenalty(fewer, run.days)) >= ScoreOf(run, "stability")

====
